---- MODULE Spec2Model ----
(***************************************************************************)
(* NSIGII sparse framework: the minimal engine (nsigii_minimal.c) and the  *)
(* dimensional engine (nsigii_dimensional.c) as state machines.            *)
(*                                                                         *)
(* Number representation.  Bytes are integers 0..255.  A float is the      *)
(* binary32 value itself, [m, e] standing for m * 2^e, and is added,       *)
(* multiplied and divided as the build does (round to nearest, ties to     *)
(* even).  rand() is the generator of the C library the programs are built *)
(* with (glibc), one stream per seed.  A SparseNode of the minimal engine  *)
(* is the record of its fields that hold a value: a field that was never   *)
(* written is absent from the record, and a read of it can give anything.  *)
(***************************************************************************)
EXTENDS Integers, Sequences, FiniteSets, TLC

VARIABLES
    grid,       \* minimal engine: TomographicGrid of main
    idx,        \* minimal engine: TomographicIndex of main
    obs,        \* minimal engine: Observer.observation_time, in steps of 0.1f
    pc,         \* minimal engine: position of main inside its event loop
    ev,         \* minimal engine: events[i], the event main handled last
    nev,        \* minimal engine: the loop counter i of main
    stopped,    \* minimal engine: an EVENT_STOP has been handled
    cycles,     \* minimal engine: number of protocol cycles run so far
    packet,     \* minimal engine: the NsigiiPacket of the last protocol cycle
    verdict,    \* minimal engine: the verdict printed by the last protocol cycle
    cc,         \* combine_channels called on its own: arguments and result
    tr,         \* trace_derivative called on its own: arguments and result
    dgrid,      \* dimensional engine: SparseNode grid[ACTIVE_SIZE][4] of main
    dpc,        \* dimensional engine: position of main
    dcycle,     \* dimensional engine: the loop counter cycle of main
    dcount,     \* dimensional engine: active_count[4] of the last cycle
    drng,       \* dimensional engine: the seed of rand() and the calls made so far
    dflag,      \* dimensional engine: the rows reported [TERMINATED] by the last cycle
    cy,         \* nsigii_protocol_cycle called on its own: arguments and result
    ix,         \* the three index initialisers called on one triple: arguments and results
    core,       \* core library: the context, the output buffer and the last call
    tk,         \* bindings: one tokenize call, its source, the library's answer and the results
    bd,         \* bindings: one Context object, the C context behind it and the last call
    nav         \* handle_trident_event called on its own: the index and the events given

vars == <<grid, idx, obs, pc, ev, nev, stopped, cycles, packet, verdict,
          cc, tr, dgrid, dpc, dcycle, dcount, drng, dflag, cy, ix, core,
          tk, bd, nav>>

minimalVars == <<grid, idx, obs, pc, ev, nev, stopped, cycles, packet, verdict>>
dimVars == <<dgrid, dpc, dcycle, dcount, drng, dflag>>
callVars == <<cy, ix, core, tk, bd, nav>>

(***************************************************************************)
(* Bounds of the model.                                                    *)
(***************************************************************************)
\* length of the events array main iterates over
MaxEvents == 3
\* length of the arrays combine_channels is called on when checked on its own
MaxSlots == 1
\* largest time, in eighths, trace_derivative is called with on its own
MaxTraceTime == 24
\* nsigii_protocol_cycle on its own: the coordinates of the index are 0 .. MaxCoord
MaxCoord == 4
\* core library: length of the longest name given to nsigii_create_context
MaxNameLen == 128
\* core library: calls made on a context after its creation
MaxCalls == 2
\* bindings: length of the longest source text given to tokenize
MaxSourceLen == 5
\* bindings: number of tokens the library returns at most
MaxTokens == 1
\* handle_trident_event on its own: number of events given to it
MaxNavEvents == 2

(***************************************************************************)
(* Program constants of the minimal engine.                                *)
(***************************************************************************)
RED_CHANNEL == 0
GREEN_CHANNEL == 1
BLUE_CHANNEL == 2
CYAN_CHANNEL == 3
DATA_SIZE == 1024
SPARSE_FACTOR == 4
ACTIVE_SIZE == DATA_SIZE \div SPARSE_FACTOR
\* the coordinate range of handle_trident_event
NAV_RANGE == 10
RAND_MAX == 2147483647

Slots == 0 .. (ACTIVE_SIZE - 1)

Events == {"EVENT_UP", "EVENT_DOWN", "EVENT_LEFT", "EVENT_RIGHT",
           "EVENT_BACK", "EVENT_START", "EVENT_ENTER", "EVENT_STOP"}

(***************************************************************************)
(* Program constants of the dimensional engine.                            *)
(***************************************************************************)
RED == 0
GREEN == 1
BLUE == 2
CYAN == 3
GRID_SIZE == 10
DIM_SPARSE_FACTOR == 4
DIM_ACTIVE_SIZE == (GRID_SIZE * GRID_SIZE * GRID_SIZE) \div DIM_SPARSE_FACTOR
\* for (int cycle = 0; cycle < 3; cycle++)
DIM_CYCLES == 3

Rows == 0 .. (DIM_ACTIVE_SIZE - 1)
Channels == {RED, GREEN, BLUE, CYAN}

(***************************************************************************)
(* C arithmetic.                                                           *)
(***************************************************************************)
\* C integer division: the quotient truncated toward zero
CDiv(a, b) ==
    IF a >= 0 THEN a \div b ELSE -((-a) \div b)

\* C remainder: the sign of the dividend
CMod(a, b) == a - b * CDiv(a, b)

\* conversion of an int to uint8_t
ToUint8(x) == x % 256

\* conversion of an int to int8_t
ToInt8(x) == ((x + 128) % 256) - 128

(***************************************************************************)
(* IEEE-754 binary32 arithmetic on non-negative numbers, as the float      *)
(* fields and locals of the program compute it (round to nearest, ties to  *)
(* even).  A float is [m, e] with value m * 2^e, m = 0 or                  *)
(* 2^23 <= m < 2^24.                                                       *)
(***************************************************************************)
Pow2(n) == 2^n

Mant24 == Pow2(24)

FZero == [m |-> 0, e |-> 0]

\* q carries extra bits below the 24 kept; sticky: bits were lost below q
FRound(q, extra, sticky, e) ==
    LET unit == Pow2(extra)
        mant == q \div unit
        rem == q % unit
        half == unit \div 2
        up == rem > half \/ (rem = half /\ (sticky \/ mant % 2 = 1))
        m1 == IF up THEN mant + 1 ELSE mant
    IN  IF m1 = Mant24
        THEN [m |-> Mant24 \div 2, e |-> e + extra + 1]
        ELSE [m |-> m1, e |-> e + extra]

\* long division until the quotient has 25 bits: (q + r / b) * 2^e = a / b
RECURSIVE DivLoop(_, _, _, _)
DivLoop(q, r, b, e) ==
    IF q >= Mant24 THEN FRound(q, 1, r # 0, e)
    ELSE IF 2 * r >= b THEN DivLoop(2 * q + 1, 2 * r - b, b, e - 1)
         ELSE DivLoop(2 * q, 2 * r, b, e - 1)

\* (float)a / (float)b for integers 0 <= a < 2^24, 0 < b < 2^24
FDivInt(a, b) == IF a = 0 THEN FZero ELSE DivLoop(a \div b, a % b, b, 0)

RECURSIVE BitsOver(_)
BitsOver(p) == IF p < Mant24 THEN 0 ELSE 1 + BitsOver(p \div 2)

\* (float)a for an int 0 <= a < 2^31
FromInt(a) ==
    IF a < Mant24 THEN FDivInt(a, 1) ELSE FRound(a, BitsOver(a), FALSE, 0)

\* the float literals 0.1f, 0.05f and 0.2f: the floats nearest to the decimals
Tenth == FDivInt(1, 10)
Twentieth == FDivInt(1, 20)
Fifth == FDivInt(1, 5)

\* x / (float)n
FDiv(x, n) ==
    IF x.m = 0 THEN FZero
    ELSE LET q == FDivInt(x.m, n) IN [m |-> q.m, e |-> q.e + x.e]

\* x * (float)n for an integer 0 < n < 128
FMulInt(x, n) ==
    IF x.m = 0 THEN FZero
    ELSE LET p == x.m * n
             extra == BitsOver(p)
         IN  IF extra = 0 THEN [m |-> p, e |-> x.e]
             ELSE FRound(p, extra, FALSE, x.e)

\* x + y, the exponent of x not below that of y: three guard bits and a
\* sticky bit under the 24 bits of x
FAddOrdered(x, y) ==
    LET d == x.e - y.e
    IN  IF d >= 27 THEN x
        ELSE LET unit == Pow2(d)
                 s == x.m * 8 + (y.m * 8) \div unit
                 sticky == (y.m * 8) % unit # 0
             IN  IF s >= Mant24 * 8
                 THEN FRound(s \div 2, 3, sticky \/ s % 2 = 1, x.e - 3 + 1)
                 ELSE FRound(s, 3, sticky, x.e - 3)

FAdd(a, b) ==
    IF a.m = 0 THEN b
    ELSE IF b.m = 0 THEN a
    ELSE IF a.e >= b.e THEN FAddOrdered(a, b) ELSE FAddOrdered(b, a)

FLess(a, b) ==
    IF b.m = 0 THEN FALSE
    ELSE IF a.m = 0 THEN TRUE
    ELSE a.e < b.e \/ (a.e = b.e /\ a.m < b.m)

\* x / y for a float y that is a power of two
FDivPow2(x, y) ==
    IF x.m = 0 THEN FZero ELSE [m |-> x.m, e |-> x.e - (y.e + 23)]

\* x / 2
FHalf(x) == IF x.m = 0 THEN FZero ELSE [m |-> x.m, e |-> x.e - 1]

\* x * y: the 48-bit product of the mantissas, taken in halves of 12 bits,
\* is high * 2^24 + low
FMul(x, y) ==
    IF x.m = 0 \/ y.m = 0 THEN FZero
    ELSE LET x1 == x.m \div 4096
             x0 == x.m % 4096
             y1 == y.m \div 4096
             y0 == y.m % 4096
             mid == x1 * y0 + x0 * y1
             lowsum == (mid % 4096) * 4096 + x0 * y0
             low == lowsum % Mant24
             high == x1 * y1 + mid \div 4096 + lowsum \div Mant24
         IN  IF high >= Mant24 \div 2
             THEN FRound(high * 2 + low \div (Mant24 \div 2), 1,
                         low % (Mant24 \div 2) # 0, x.e + y.e + 23)
             ELSE FRound(high * 4 + low \div (Mant24 \div 4), 1,
                         low % (Mant24 \div 4) # 0, x.e + y.e + 22)

(***************************************************************************)
(* IEEE-754 binary64 arithmetic (round to nearest, ties to even), as the   *)
(* double fields and locals of the dimensional engine compute it.  A       *)
(* double is [neg, hi, lo, e] with value (hi * 2^27 + lo) * 2^e, negated   *)
(* when neg, where hi = lo = 0 or 2^25 <= hi < 2^26, and 0 <= lo < 2^27.   *)
(* No value of the engine leaves the normal range, and no zero it computes *)
(* is negative.                                                            *)
(***************************************************************************)
Limb == Pow2(27)

DZero == [neg |-> FALSE, hi |-> 0, lo |-> 0, e |-> 0]

\* the number of bits of 0 <= n < 2^b
RECURSIVE BitsFrom(_, _)
BitsFrom(n, b) == IF b = 0 \/ n >= Pow2(b - 1) THEN b ELSE BitsFrom(n, b - 1)

\* the number of bits of 0 <= n < 2^31
BitLength(n) == BitsFrom(n, 31)

\* the double with the mantissa h * 2^27 + l of 53 bits, or of 54 when
\* rounding up carried out of the 27 bits of l
DCarry(neg, h, l, e) ==
    IF l < Limb THEN [neg |-> neg, hi |-> h, lo |-> l, e |-> e]
    ELSE IF h + 1 = Pow2(26)
    THEN [neg |-> neg, hi |-> Pow2(25), lo |-> 0, e |-> e + 1]
    ELSE [neg |-> neg, hi |-> h + 1, lo |-> 0, e |-> e]

\* the mantissa qh * 2^27 + ql that a division by 2 * half left, with the
\* remainder rem, rounded to nearest, ties to even
DNearest(neg, qh, ql, rem, half, e) ==
    DCarry(neg, qh,
           IF rem > half \/ (rem = half /\ ql % 2 = 1) THEN ql + 1 ELSE ql, e)

\* a mantissa of 53 + k bits cut to 53, unit being 2^k
DNarrow(neg, h, l, e, k, unit) ==
    DNearest(neg, h \div unit, (h % unit) * Pow2(27 - k) + l \div unit,
             l % unit, unit \div 2, e + k)

\* a mantissa of 53 - k bits shifted up to 53
DWiden(neg, h, l, e, k) ==
    IF k >= 27
    THEN [neg |-> neg, hi |-> l * Pow2(k - 27), lo |-> 0, e |-> e - k]
    ELSE [neg |-> neg,
          hi |-> h * Pow2(k) + l \div Pow2(27 - k),
          lo |-> (l % Pow2(27 - k)) * Pow2(k),
          e |-> e - k]

\* DRound for a mantissa of n bits
DRoundBits(neg, h, l, e, n) ==
    IF n <= 53 THEN DWiden(neg, h, l, e, 53 - n)
    ELSE DNarrow(neg, h, l, e, n - 53, Pow2(n - 53))

\* the double nearest to (h * 2^27 + l) * 2^e for 0 <= h < 2^30 and
\* 0 <= l < 2^27; in a number of 55 bits or more an odd l stands for
\* the bits lost below it
DRound(neg, h, l, e) ==
    IF h = 0 /\ l = 0 THEN DZero
    ELSE DRoundBits(neg, h, l, e,
                    IF h > 0 THEN 27 + BitLength(h) ELSE BitLength(l))

\* DRound of a number of 55 bits or more whose lowest bit is set when bits
\* were lost below it
DRoundSticky(neg, h, l, lost, e) ==
    DRound(neg, h, IF lost /\ l % 2 = 0 THEN l + 1 ELSE l, e)

\* (double)n for an int n
DFromInt(n) ==
    IF n < 0 THEN DRound(TRUE, (-n) \div Limb, (-n) % Limb, 0)
    ELSE DRound(FALSE, n \div Limb, n % Limb, 0)

\* -x and fabs(x)
DNeg(x) == IF x.hi = 0 THEN x ELSE [x EXCEPT !.neg = ~x.neg]

DAbs(x) == [x EXCEPT !.neg = FALSE]

\* |x| < |y| for doubles other than zero
DMagLess(x, y) ==
    \/ x.e < y.e
    \/ x.e = y.e /\ (x.hi < y.hi \/ (x.hi = y.hi /\ x.lo < y.lo))

\* x < y
DLess(x, y) ==
    IF x.hi = 0 THEN y.hi # 0 /\ ~y.neg
    ELSE IF y.hi = 0 THEN x.neg
    ELSE IF x.neg # y.neg THEN x.neg
    ELSE IF x.neg THEN DMagLess(y, x) ELSE DMagLess(x, y)

\* <<h, l>> with l made odd when bits were lost
Jam(h, l, lost) == <<h, IF lost /\ l % 2 = 0 THEN l + 1 ELSE l>>

\* (h * 2^27 + l) \div 2^d as <<h, l>>, l made odd when bits were lost
ShiftJam(h, l, d) ==
    IF d = 0 THEN <<h, l>>
    ELSE IF d < 27
    THEN Jam(h \div Pow2(d), (h % Pow2(d)) * Pow2(27 - d) + l \div Pow2(d),
             l % Pow2(d) # 0)
    ELSE IF d < 57
    THEN Jam((h \div Pow2(d - 27)) \div Limb, (h \div Pow2(d - 27)) % Limb,
             h % Pow2(d - 27) # 0 \/ l # 0)
    ELSE <<0, 1>>

\* x + y for the mantissa xh * 2^27 + xl of x and the mantissa ys of y
\* shifted to the exponent of x, same telling whether the signs agree
DAddAligned(neg, same, xh, xl, ys, e) ==
    IF same
    THEN DRound(neg, xh + ys[1] + (xl + ys[2]) \div Limb, (xl + ys[2]) % Limb, e)
    ELSE IF xl < ys[2]
         THEN DRound(neg, xh - ys[1] - 1, xl - ys[2] + Limb, e)
         ELSE DRound(neg, xh - ys[1], xl - ys[2], e)

\* x + y for |x| >= |y| > 0: three more bits under the 53 of x, the lowest
\* of them sticky
DAddOrdered(x, y) ==
    DAddAligned(x.neg, x.neg = y.neg, x.hi * 8 + x.lo \div Pow2(24),
                (x.lo % Pow2(24)) * 8,
                ShiftJam(y.hi * 8 + y.lo \div Pow2(24), (y.lo % Pow2(24)) * 8,
                         x.e - y.e),
                x.e - 3)

\* x + y
DAdd(x, y) ==
    IF x.hi = 0 THEN y
    ELSE IF y.hi = 0 THEN x
    ELSE IF DMagLess(x, y) THEN DAddOrdered(y, x) ELSE DAddOrdered(x, y)

\* x - y
DSub(x, y) == DAdd(x, DNeg(y))

\* the 53 bits of x in four limbs of 14 bits, the lowest first
Limbs14(x) ==
    <<x.lo % 16384, x.lo \div 16384 + (x.hi % 2) * 8192,
      (x.hi \div 2) % 16384, x.hi \div 32768>>

\* the product of the mantissas a and b, limb by limb, cut to its upper
\* 57 bits
DProduct(neg, a, b, e) ==
    LET t0 == a[1] * b[1]
        t1 == a[1] * b[2] + a[2] * b[1] + t0 \div 16384
        t2 == a[1] * b[3] + a[2] * b[2] + a[3] * b[1] + t1 \div 16384
        t3 == a[1] * b[4] + a[2] * b[3] + a[3] * b[2] + a[4] * b[1]
              + t2 \div 16384
        t4 == a[2] * b[4] + a[3] * b[3] + a[4] * b[2] + t3 \div 16384
        t5 == a[3] * b[4] + a[4] * b[3] + t4 \div 16384
        t6 == a[4] * b[4] + t5 \div 16384
    IN  DRoundSticky(neg,
                     (t6 \div 16384) * 4194304 + (t6 % 16384) * 256
                         + (t5 % 16384) \div 64,
                     ((t5 % 16384) % 64) * 2097152 + (t4 % 16384) * 128
                         + (t3 % 16384) \div 128,
                     (t3 % 16384) % 128 # 0 \/ t2 % 16384 # 0
                         \/ t1 % 16384 # 0 \/ t0 % 16384 # 0,
                     e)

\* x * y: the 106-bit product of the mantissas cut to its upper 57 bits
DMul(x, y) ==
    IF x.hi = 0 \/ y.hi = 0 THEN DZero
    ELSE DProduct(x.neg # y.neg, Limbs14(x), Limbs14(y), x.e + y.e + 49)

\* long division of the mantissas: <<rh, rl>> is the remainder, below the
\* divisor <<bh, bl>>; the next n bits of the quotient are appended to q,
\* and the remainder left follows them
RECURSIVE DDivLoop(_, _, _, _, _, _)
DDivLoop(rh, rl, bh, bl, q, n) ==
    IF n = 0 THEN <<q, rh, rl>>
    ELSE LET h2 == 2 * rh + (IF rl >= Pow2(26) THEN 1 ELSE 0)
             l2 == IF rl >= Pow2(26) THEN 2 * rl - Limb ELSE 2 * rl
         IN  IF h2 > bh \/ (h2 = bh /\ l2 >= bl)
             THEN IF l2 >= bl
                  THEN DDivLoop(h2 - bh, l2 - bl, bh, bl, 2 * q + 1, n - 1)
                  ELSE DDivLoop(h2 - bh - 1, l2 - bl + Limb, bh, bl, 2 * q + 1,
                                n - 1)
             ELSE DDivLoop(h2, l2, bh, bl, 2 * q, n - 1)

\* the first bit of the quotient of the mantissas and the remainder it leaves
DDivFirst(x, y) ==
    IF x.hi < y.hi \/ (x.hi = y.hi /\ x.lo < y.lo) THEN <<0, x.hi, x.lo>>
    ELSE IF x.lo >= y.lo THEN <<1, x.hi - y.hi, x.lo - y.lo>>
    ELSE <<1, x.hi - y.hi - 1, x.lo - y.lo + Limb>>

\* n more bits of the quotient after the part <<q, rh, rl>> of it
DDivMore(part, y, q, n) == DDivLoop(part[2], part[3], y.hi, y.lo, q, n)

\* the quotient of the mantissas from its upper 30 and lower 27 bits, the
\* lowest made odd when a remainder is left
DDivRound(neg, upper, lower, e) ==
    DRoundSticky(neg, upper[1], lower[1], lower[2] # 0 \/ lower[3] # 0, e)

DDivLower(neg, upper, y, e) == DDivRound(neg, upper, DDivMore(upper, y, 0, 27), e)

DDivUpper(neg, first, y, e) ==
    DDivLower(neg, DDivMore(first, y, first[1], 29), y, e)

\* x / y, y not zero.  A power of two divides exactly; otherwise 57 bits of
\* the quotient of the mantissas are taken, the lowest made odd when a
\* remainder is left
DDiv(x, y) ==
    IF x.hi = 0 THEN DZero
    ELSE IF y.hi = Pow2(25) /\ y.lo = 0
    THEN [neg |-> x.neg # y.neg, hi |-> x.hi, lo |-> x.lo, e |-> x.e - y.e - 52]
    ELSE DDivUpper(x.neg # y.neg, DDivFirst(x, y), y, x.e - y.e - 56)

(***************************************************************************)
(* rand() of glibc: srand(seed) fills 34 words from the seed, every later  *)
(* word is the sum of the words 31 and 3 places back, and the call n of    *)
(* rand() returns the word 344 + n without its lowest bit.  A program that *)
(* never calls srand gets the stream of seed 1.  A word is the pair of its *)
(* high and low 16 bits.                                                   *)
(***************************************************************************)
Word(w) == <<w \div 65536, w % 65536>>

\* a + b as uint32_t
Add32(a, b) ==
    LET low == a[2] + b[2]
    IN  <<(a[1] + b[1] + low \div 65536) % 65536, low % 65536>>

\* the n words that follow word in the state srand builds
RECURSIVE SeedWords(_, _)
SeedWords(word, n) ==
    IF n = 0 THEN << >>
    ELSE LET hi == word \div 127773
             lo == word % 127773
             w == 16807 * lo - 2836 * hi
             next == IF w < 0 THEN w + 2147483647 ELSE w
         IN  <<Word(next)>> \o SeedWords(next, n - 1)

\* the 34 words after srand(seed), 0 <= seed < 2^31
SeedState(seed) ==
    LET word == IF seed = 0 THEN 1 ELSE seed
        r == <<Word(word)>> \o SeedWords(word, 30)
    IN  r \o <<r[1], r[2], r[3]>>

\* r followed by its next n words
RECURSIVE Feedback(_, _)
Feedback(r, n) ==
    IF n = 0 THEN r
    ELSE IF n = 1 THEN r \o <<Add32(r[Len(r) - 30], r[Len(r) - 2])>>
    ELSE LET half == Feedback(r, n \div 2)
         IN  IF Len(half) > 0 THEN Feedback(half, n - n \div 2) ELSE half

\* the values of the words lo .. hi of r as rand() returns them
RECURSIVE Outputs(_, _, _)
Outputs(r, lo, hi) ==
    IF hi < lo THEN << >>
    ELSE IF lo = hi THEN <<r[lo][1] * 32768 + r[lo][2] \div 2>>
    ELSE LET mid == (lo + hi) \div 2
         IN  Outputs(r, lo, mid) \o Outputs(r, mid + 1, hi)

\* the first n values rand() returns after srand(seed)
RandStream(seed, n) ==
    LET r == Feedback(SeedState(seed), 310 + n)
    IN  IF Len(r) > 0 THEN Outputs(r, 345, 344 + n) ELSE << >>

\* the seed of a program that never calls srand (the minimal engine)
DefaultSeed == 1

\* srand(time(NULL)) of the dimensional engine: readings of the clock
ClockSeeds == <<1700000000, 1750000000, 1800000000>>

\* the largest number of rand() calls a run makes: 6 per slot in the minimal
\* engine, 3 per row and then one per cell and cycle in the dimensional one
RandCalls == 3 * DIM_ACTIVE_SIZE + DIM_CYCLES * 4 * DIM_ACTIVE_SIZE

\* the streams of the clock seeds from the seed c on
RECURSIVE ClockStreams(_)
ClockStreams(c) ==
    IF c > Len(ClockSeeds) THEN << >>
    ELSE <<RandStream(ClockSeeds[c], RandCalls)>> \o ClockStreams(c + 1)

\* the streams of the seeds the programs run with, computed once
Streams == <<RandStream(DefaultSeed, RandCalls)>> \o ClockStreams(1)

StreamOf(seed) ==
    Streams[IF seed = DefaultSeed THEN 1
            ELSE 1 + CHOOSE c \in 1 .. Len(ClockSeeds) : ClockSeeds[c] = seed]

\* the value of the call n (from 0) of rand() after srand(seed)
Rand(seed, n) == StreamOf(seed)[n + 1]

\* (double)r / RAND_MAX for 0 < r < RAND_MAX of b bits: with
\* r * 2^(31 - b) = scaled of 31 bits, 2^62 being (2^31 - 1) * (2^31 + 1) + 1,
\* the quotient is scaled * (2^31 + 1) * 2^(b - 93) and a rest below 2^(b - 93)
RandScaled(scaled, b) ==
    DRoundSticky(FALSE, scaled \div 2, (scaled % 2) * Pow2(26) + scaled \div 32,
                 TRUE, b - 88)

\* (double)r / RAND_MAX for 0 <= r <= RAND_MAX
RandQuotient(r) ==
    IF r = 0 THEN DZero
    ELSE IF r = RAND_MAX THEN DFromInt(1)
    ELSE RandScaled(r * Pow2(31 - BitLength(r)), BitLength(r))

\* (double)rand() / RAND_MAX, rand() being the call n (from 0) after srand(seed)
RandFraction(seed, n) == RandQuotient(Rand(seed, n))

\* (float)rand() / RAND_MAX * max for a float literal max
RandRisk(seed, n, max) ==
    FMul(FDivPow2(FromInt(Rand(seed, n)), FromInt(RAND_MAX)), max)

(***************************************************************************)
(* Storage.  A SparseNode is the record of those of its fields value,      *)
(* active, vector, channel and polarity that hold a value; a node that was *)
(* never written is the empty record.  A node of storage that something    *)
(* filled with one byte has every field.                                   *)
(***************************************************************************)
Indeterminate == [field \in {} |-> field]

Determinate(node, field) == field \in DOMAIN node

\* the float whose four bytes are fill, 0 <= fill < 128
FilledFloat(fill) ==
    IF fill = 0 THEN FZero
    ELSE [m |-> Mant24 \div 2 + (fill % 128) * 65536 + fill * 257,
          e |-> ((2 * fill) % 256) + (fill \div 128) - 150]

\* a SparseNode every byte of which is fill
FilledNode(fill) ==
    [value    |-> fill,
     active   |-> (fill # 0),
     vector   |-> [attack_risk      |-> FilledFloat(fill),
                   rollback_cost    |-> FilledFloat(fill),
                   stability_impact |-> FilledFloat(fill)],
     channel  |-> fill * 16843009,
     polarity |-> ToInt8(fill)]

\* the node after a store of v to one of its fields
Store(node, field, v) ==
    [f \in DOMAIN node \cup {field} |-> IF f = field THEN v ELSE node[f]]

(***************************************************************************)
(* init_tomographic_index                                                  *)
(***************************************************************************)
\* mutant: the last entry repeats kij
PermutationsOfRepeated(i, j, k) ==
    << <<i, j, k>>, <<j, i, k>>, <<i, k, j>>, <<j, k, i>>, <<k, i, j>>, <<k, i, j>> >>

PermutationsOf(i, j, k) ==
    << <<i, j, k>>, <<j, i, k>>, <<i, k, j>>, <<j, k, i>>, <<k, i, j>>, <<k, j, i>> >>

init_tomographic_index(i, j, k) ==
    [i |-> i, j |-> j, k |-> k, permutations |-> PermutationsOf(i, j, k)]

(***************************************************************************)
(* combine_channels: one slot, then the loop over n slots.  A slot whose   *)
(* red or green cell is inactive is left as it was; the other slots have   *)
(* every field written.                                                    *)
(***************************************************************************)
\* mutant: the sum is taken in 8 bits before it is halved
CombinedValueWraps(r, g) == CDiv(ToUint8(r + g), 2)

CombinedValue(r, g) == ToUint8(CDiv(r + g, 2))

CombinedPolarity(rp, gp) == ToInt8(CDiv(rp + gp, 2))

\* (a + b) / 2 on floats
CombinedRisk(a, b) == FHalf(FAdd(a, b))

CombineCell(cyan, red, green) ==
    IF red.active /\ green.active
    THEN [value    |-> CombinedValue(red.value, green.value),
          active   |-> TRUE,
          channel  |-> CYAN_CHANNEL,
          polarity |-> CombinedPolarity(red.polarity, green.polarity),
          vector   |->
              [attack_risk |->
                   CombinedRisk(red.vector.attack_risk, green.vector.attack_risk),
               rollback_cost |->
                   CombinedRisk(red.vector.rollback_cost, green.vector.rollback_cost),
               stability_impact |->
                   CombinedRisk(red.vector.stability_impact,
                                green.vector.stability_impact)]]
    ELSE cyan

combine_channels(cyan, red, green, n) ==
    [s \in DOMAIN cyan |->
        IF s < n THEN CombineCell(cyan[s], red[s], green[s]) ELSE cyan[s]]

(***************************************************************************)
(* init_sparse_grid, rand() being the stream of seed and cyan what the     *)
(* storage of grid->cyan held before the call; every other member of the   *)
(* grid is written whatever it held.  Slot s makes the rand() calls        *)
(* 6s .. 6s+5.                                                             *)
(***************************************************************************)
InitVector(seed, s) ==
    [attack_risk      |-> RandRisk(seed, 6 * s + 3, Tenth),
     rollback_cost    |-> RandRisk(seed, 6 * s + 4, Twentieth),
     stability_impact |-> RandRisk(seed, 6 * s + 5, Fifth)]

SlotActive(s) == (s % SPARSE_FACTOR = 0)

init_sparse_grid(cyan, seed) ==
    LET red == [s \in Slots |->
                   [value    |-> Rand(seed, 6 * s) % 256,
                    active   |-> SlotActive(s),
                    channel  |-> RED_CHANNEL,
                    polarity |-> 1,
                    vector   |-> InitVector(seed, s)]]
        green == [s \in Slots |->
                   [value    |-> Rand(seed, 6 * s + 1) % 256,
                    active   |-> SlotActive(s),
                    channel  |-> GREEN_CHANNEL,
                    polarity |-> -1,
                    vector   |-> InitVector(seed, s)]]
        blue == [s \in Slots |->
                   [value    |-> Rand(seed, 6 * s + 2) % 256,
                    active   |-> SlotActive(s),
                    channel  |-> BLUE_CHANNEL,
                    polarity |-> 0,
                    vector   |-> InitVector(seed, s)]]
    IN  [red   |-> red,
         green |-> green,
         blue  |-> blue,
         cyan  |-> combine_channels(cyan, red, green, ACTIVE_SIZE),
         active_count |-> Cardinality({s \in Slots : red[s].active})]

(***************************************************************************)
(* handle_trident_event: the index after the event.  The grid is passed to *)
(* the handler and never touched; the stored permutations are not          *)
(* reassigned by any case.                                                 *)
(***************************************************************************)
\* mutant: EVENT_DOWN without the + 10 that keeps the remainder non-negative
handle_trident_event_no_wrap(event, index) ==
    CASE event = "EVENT_UP" ->
             [index EXCEPT !.i = CMod(index.i + 1, NAV_RANGE)]
      [] event = "EVENT_DOWN" ->
             [index EXCEPT !.i = CMod(index.i - 1, NAV_RANGE)]
      [] event = "EVENT_LEFT" ->
             [index EXCEPT !.j = CMod(index.j - 1 + NAV_RANGE, NAV_RANGE)]
      [] event = "EVENT_RIGHT" ->
             [index EXCEPT !.j = CMod(index.j + 1, NAV_RANGE)]
      [] event = "EVENT_BACK" ->
             [index EXCEPT !.k = CMod(index.k - 1 + NAV_RANGE, NAV_RANGE)]
      [] event = "EVENT_START" ->
             [index EXCEPT !.i = 0, !.j = 0, !.k = 0]
      [] OTHER -> index

\* mutant: EVENT_ENTER resets the index the way EVENT_START does
handle_trident_event_enter_resets(event, index) ==
    CASE event = "EVENT_UP" ->
             [index EXCEPT !.i = CMod(index.i + 1, NAV_RANGE)]
      [] event = "EVENT_DOWN" ->
             [index EXCEPT !.i = CMod(index.i - 1 + NAV_RANGE, NAV_RANGE)]
      [] event = "EVENT_LEFT" ->
             [index EXCEPT !.j = CMod(index.j - 1 + NAV_RANGE, NAV_RANGE)]
      [] event = "EVENT_RIGHT" ->
             [index EXCEPT !.j = CMod(index.j + 1, NAV_RANGE)]
      [] event = "EVENT_BACK" ->
             [index EXCEPT !.k = CMod(index.k - 1 + NAV_RANGE, NAV_RANGE)]
      [] event \in {"EVENT_START", "EVENT_ENTER"} ->
             [index EXCEPT !.i = 0, !.j = 0, !.k = 0]
      [] OTHER -> index

\* mutant: EVENT_BACK without the + 10 that keeps the remainder non-negative
handle_trident_event_back_no_wrap(event, index) ==
    CASE event = "EVENT_UP" ->
             [index EXCEPT !.i = CMod(index.i + 1, NAV_RANGE)]
      [] event = "EVENT_DOWN" ->
             [index EXCEPT !.i = CMod(index.i - 1 + NAV_RANGE, NAV_RANGE)]
      [] event = "EVENT_LEFT" ->
             [index EXCEPT !.j = CMod(index.j - 1 + NAV_RANGE, NAV_RANGE)]
      [] event = "EVENT_RIGHT" ->
             [index EXCEPT !.j = CMod(index.j + 1, NAV_RANGE)]
      [] event = "EVENT_BACK" ->
             [index EXCEPT !.k = CMod(index.k - 1, NAV_RANGE)]
      [] event = "EVENT_START" ->
             [index EXCEPT !.i = 0, !.j = 0, !.k = 0]
      [] OTHER -> index

\* mutant: EVENT_LEFT moves j the way EVENT_RIGHT does
handle_trident_event_left_as_right(event, index) ==
    CASE event = "EVENT_UP" ->
             [index EXCEPT !.i = CMod(index.i + 1, NAV_RANGE)]
      [] event = "EVENT_DOWN" ->
             [index EXCEPT !.i = CMod(index.i - 1 + NAV_RANGE, NAV_RANGE)]
      [] event = "EVENT_LEFT" ->
             [index EXCEPT !.j = CMod(index.j + 1, NAV_RANGE)]
      [] event = "EVENT_RIGHT" ->
             [index EXCEPT !.j = CMod(index.j + 1, NAV_RANGE)]
      [] event = "EVENT_BACK" ->
             [index EXCEPT !.k = CMod(index.k - 1 + NAV_RANGE, NAV_RANGE)]
      [] event = "EVENT_START" ->
             [index EXCEPT !.i = 0, !.j = 0, !.k = 0]
      [] OTHER -> index

handle_trident_event(event, index) ==
    CASE event = "EVENT_UP" ->
             [index EXCEPT !.i = CMod(index.i + 1, NAV_RANGE)]
      [] event = "EVENT_DOWN" ->
             [index EXCEPT !.i = CMod(index.i - 1 + NAV_RANGE, NAV_RANGE)]
      [] event = "EVENT_LEFT" ->
             [index EXCEPT !.j = CMod(index.j - 1 + NAV_RANGE, NAV_RANGE)]
      [] event = "EVENT_RIGHT" ->
             [index EXCEPT !.j = CMod(index.j + 1, NAV_RANGE)]
      [] event = "EVENT_BACK" ->
             [index EXCEPT !.k = CMod(index.k - 1 + NAV_RANGE, NAV_RANGE)]
      [] event = "EVENT_START" ->
             [index EXCEPT !.i = 0, !.j = 0, !.k = 0]
      [] event = "EVENT_ENTER" -> index
      [] event = "EVENT_STOP" -> index

(***************************************************************************)
(* The slot hash shared by observer_consume and nsigii_protocol_cycle.     *)
(***************************************************************************)
LinearIdx(i, j, k) == CMod(i * 100 + j * 10 + k, ACTIVE_SIZE)

(***************************************************************************)
(* observer_consume.  WaveBytes[n + 1] is                                  *)
(* (uint8_t)fabs(fourier_square_wave(t, 5) * 127) % 256 for the float t    *)
(* reached after n additions of 0.1f to 0.0f.                              *)
(***************************************************************************)
WaveBytes ==
    <<0, 47, 89, 122, 142, 150, 148, 139, 127, 118, 112, 112, 117, 125, 133, 138,
      139, 136, 129, 120, 114, 112, 115, 123, 134, 145, 150, 147, 132, 104, 66, 20,
      28, 73, 110, 135, 148, 150, 143, 132, 121, 114, 112, 115, 122, 130, 137, 140>>

ConsumedValue(t) == WaveBytes[t + 1]

ChannelField(channel) ==
    CASE channel = RED_CHANNEL -> "red"
      [] channel = GREEN_CHANNEL -> "green"
      [] channel = BLUE_CHANNEL -> "blue"
      [] channel = CYAN_CHANNEL -> "cyan"

\* the node once a read of one of its fields has given v: a field that holds
\* a value gives that value, a field never written gives v from then on
Read(node, field, v) ==
    IF Determinate(node, field) THEN node ELSE Store(node, field, v)

\* the grid and the observation time after observer_consume(obs, channel);
\* garbage is what node->active gives when the node was never written
observer_consume(g, index, t, channel, garbage) ==
    LET linear_idx == LinearIdx(index.i, index.j, index.k)
        f == ChannelField(channel)
        node == Read(g[f][linear_idx], "active", garbage)
    IN  IF node.active
        THEN [grid |-> [g EXCEPT ![f][linear_idx] =
                                     Store(node, "value", ConsumedValue(t))],
              time |-> t + 1]
        ELSE [grid |-> [g EXCEPT ![f][linear_idx] = node], time |-> t]

(***************************************************************************)
(* nsigii_protocol_cycle: the packet, the aggregate risk vector and the    *)
(* verdict.  The slots sampled are those of the stored permutations.       *)
(***************************************************************************)
\* mutant: the green byte of a slot is appended before the red one
RECURSIVE PacketDataGreenFirst(_, _, _)
PacketDataGreenFirst(g, index, p) ==
    IF p > 6 THEN << >>
    ELSE LET perm == index.permutations[p]
             linear_idx == LinearIdx(perm[1], perm[2], perm[3])
             r == IF g.red[linear_idx].active
                  THEN <<g.red[linear_idx].value>> ELSE << >>
             gr == IF g.green[linear_idx].active
                   THEN <<g.green[linear_idx].value>> ELSE << >>
         IN  gr \o r \o PacketDataGreenFirst(g, index, p + 1)

\* mutant: the green byte is appended whenever the red cell is inactive
RECURSIVE PacketDataGreenUnpaired(_, _, _)
PacketDataGreenUnpaired(g, index, p) ==
    IF p > 6 THEN << >>
    ELSE LET perm == index.permutations[p]
             linear_idx == LinearIdx(perm[1], perm[2], perm[3])
             r == IF g.red[linear_idx].active
                  THEN <<g.red[linear_idx].value>> ELSE << >>
             gr == IF ~g.red[linear_idx].active
                   THEN <<g.green[linear_idx].value>> ELSE << >>
         IN  r \o gr \o PacketDataGreenUnpaired(g, index, p + 1)

RECURSIVE PacketData(_, _, _)
PacketData(g, index, p) ==
    IF p > 6 THEN << >>
    ELSE LET perm == index.permutations[p]
             linear_idx == LinearIdx(perm[1], perm[2], perm[3])
             r == IF g.red[linear_idx].active
                  THEN <<g.red[linear_idx].value>> ELSE << >>
             gr == IF g.green[linear_idx].active
                   THEN <<g.green[linear_idx].value>> ELSE << >>
         IN  r \o gr \o PacketData(g, index, p + 1)

RECURSIVE SumSeq(_)
SumSeq(s) == IF s = << >> THEN 0 ELSE Head(s) + SumSeq(Tail(s))

\* the float the loop over the slots lo .. hi - 1 adds to acc, in slot order
\* (the test of left.m has the left half summed before the right one starts)
RECURSIVE SumRisk(_, _, _, _, _)
SumRisk(g, field, acc, lo, hi) ==
    IF hi <= lo THEN acc
    ELSE IF hi = lo + 1
         THEN (IF g.red[lo].active
               THEN FAdd(acc, g.red[lo].vector[field])
               ELSE acc)
         ELSE LET mid == (lo + hi) \div 2
                  left == SumRisk(g, field, acc, lo, mid)
              IN  IF left.m >= 0 THEN SumRisk(g, field, left, mid, hi) ELSE left

\* mutant: the sums are divided by the number of slots, not by the number
\* of active red cells
AvgVectorOverAllSlots(g) ==
    LET avg(field) == FDiv(SumRisk(g, field, FZero, 0, ACTIVE_SIZE), ACTIVE_SIZE)
    IN  [attack_risk      |-> avg("attack_risk"),
         rollback_cost    |-> avg("rollback_cost"),
         stability_impact |-> avg("stability_impact")]

AvgVector(g) ==
    LET count == Cardinality({s \in Slots : g.red[s].active})
        avg(field) ==
            LET sum == SumRisk(g, field, FZero, 0, ACTIVE_SIZE)
            IN  IF count > 0 THEN FDiv(sum, count) ELSE sum
    IN  [attack_risk      |-> avg("attack_risk"),
         rollback_cost    |-> avg("rollback_cost"),
         stability_impact |-> avg("stability_impact")]

\* avg_vector.attack_risk < 0.1f
Balanced(avg) == FLess(avg.attack_risk, Tenth)

\* mutant: the entropy is the sum of the bytes, not divided by the length
nsigii_protocol_cycle_sum_entropy(g, index) ==
    LET data == PacketData(g, index, 1)
        length == Len(data)
        avg == AvgVector(g)
    IN  [packet |-> [data    |-> data,
                     length  |-> length,
                     entropy |-> IF length > 0 THEN FromInt(SumSeq(data)) ELSE FZero],
         risk |-> avg,
         verdict |-> IF Balanced(avg) THEN "balanced" ELSE "imbalanced"]

nsigii_protocol_cycle(g, index) ==
    LET data == PacketData(g, index, 1)
        length == Len(data)
        avg == AvgVector(g)
    IN  [packet |-> [data    |-> data,
                     length  |-> length,
                     entropy |-> IF length > 0
                                 THEN FDivInt(SumSeq(data), length)
                                 ELSE FZero],
         risk |-> avg,
         verdict |-> IF Balanced(avg) THEN "balanced" ELSE "imbalanced"]

(***************************************************************************)
(* main of the minimal engine.  The state after construction: the grid, a  *)
(* local that main never clears, initialised by init_sparse_grid with the  *)
(* rand() stream of a program that never calls srand; the index built on   *)
(* (0,0,0); the observer at time 0.  The events array has the length of    *)
(* main's array; its first MaxEvents entries are any events, the others    *)
(* are those of main's array.                                              *)
(***************************************************************************)
MainEvents ==
    <<"EVENT_START", "EVENT_RIGHT", "EVENT_UP", "EVENT_ENTER",
      "EVENT_LEFT", "EVENT_DOWN", "EVENT_BACK", "EVENT_STOP">>

NoPacket == [data |-> << >>, length |-> 0, entropy |-> FZero]

\* the cyan array of a grid that was never written
MainStorage == [s \in Slots |-> Indeterminate]

\* main up to its loop, on a grid whose cyan array held storage
MinimalInitOn(storage) ==
    /\ grid = init_sparse_grid(storage, DefaultSeed)
    /\ idx = init_tomographic_index(0, 0, 0)
    /\ obs = 0
    /\ pc = "events"
    /\ ev = "none"
    /\ nev = 0
    /\ stopped = FALSE
    /\ cycles = 0
    /\ packet = NoPacket
    /\ verdict = "none"

MinimalInit == MinimalInitOn(MainStorage)

\* the variables of the other programs, parked
CombineIdle == cc = [phase |-> "idle"]
TraceIdle == tr = [phase |-> "idle"]
CycleIdle == cy = [phase |-> "idle"]
IndexIdle == ix = [phase |-> "idle"]
CoreIdle == core = [phase |-> "idle"]
TokenizeIdle == tk = [phase |-> "idle"]
BindingIdle == bd = [phase |-> "idle"]
NavIdle == nav = [phase |-> "idle"]
CallIdle ==
    /\ CycleIdle /\ IndexIdle /\ CoreIdle
    /\ TokenizeIdle /\ BindingIdle /\ NavIdle
DimIdle ==
    /\ dgrid = << >>
    /\ dpc = "idle"
    /\ dcycle = 0
    /\ dcount = << >>
    /\ drng = << >>
    /\ dflag = {}

\* one iteration of the loop of main up to the return of handle_trident_event
HandleEvent(e) ==
    /\ pc = "events"
    /\ \/ nev < MaxEvents /\ nev < Len(MainEvents)
       \/ nev >= MaxEvents /\ nev < Len(MainEvents) /\ e = MainEvents[nev + 1]
    /\ idx' = handle_trident_event(e, idx)
    /\ ev' = e
    /\ nev' = nev + 1
    /\ stopped' = (stopped \/ e = "EVENT_STOP")
    /\ pc' = IF e = "EVENT_ENTER" THEN "cycle" ELSE "events"
    /\ UNCHANGED <<grid, obs, cycles, packet, verdict>>

\* the call of nsigii_protocol_cycle made by main after an EVENT_ENTER
ProtocolCycle ==
    /\ pc = "cycle"
    /\ LET out == nsigii_protocol_cycle(grid, idx)
       IN  /\ packet' = out.packet
           /\ verdict' = out.verdict
    /\ cycles' = cycles + 1
    /\ pc' = "consume_red"
    /\ UNCHANGED <<grid, idx, obs, ev, nev, stopped>>

ConsumePc(channel) ==
    CASE channel = RED_CHANNEL -> "consume_red"
      [] channel = GREEN_CHANNEL -> "consume_green"
      [] channel = BLUE_CHANNEL -> "consume_blue"
      [] channel = CYAN_CHANNEL -> "consume_cyan"

AfterConsumePc(channel) ==
    IF channel = CYAN_CHANNEL THEN "events" ELSE ConsumePc(channel + 1)

\* one of the four calls of observer_consume made by main after the cycle
ObserverConsume(channel) ==
    /\ pc = ConsumePc(channel)
    /\ \E garbage \in BOOLEAN :
           LET out == observer_consume(grid, idx, obs, channel, garbage)
           IN  /\ grid' = out.grid
               /\ obs' = out.time
    /\ pc' = AfterConsumePc(channel)
    /\ UNCHANGED <<idx, ev, nev, stopped, cycles, packet, verdict>>

MinimalNext ==
    \/ \E e \in Events : HandleEvent(e)
    \/ ProtocolCycle
    \/ \E channel \in {RED_CHANNEL, GREEN_CHANNEL, BLUE_CHANNEL, CYAN_CHANNEL} :
           ObserverConsume(channel)

Init == MinimalInit /\ CombineIdle /\ TraceIdle /\ DimIdle /\ CallIdle

Next == MinimalNext /\ UNCHANGED <<cc, tr, dimVars, callVars>>

Spec == Init /\ [][Next]_vars

(***************************************************************************)
(* combine_channels called on its own: arrays of MaxSlots slots, every     *)
(* slot holding the same red cell, green cell and prior derived cell (one  *)
(* never written, or one of storage filled with a byte), and a count n of  *)
(* slots to combine.                                                       *)
(***************************************************************************)
RiskInputs ==
    {[attack_risk |-> FZero, rollback_cost |-> FZero, stability_impact |-> FZero],
     [attack_risk |-> Tenth, rollback_cost |-> Twentieth, stability_impact |-> Fifth],
     [attack_risk |-> FDivInt(1, 10000), rollback_cost |-> FDivInt(3, 10000),
      stability_impact |-> FDivInt(5, 10000)]}

\* the bytes a derived cell written before the call is filled with
PriorFills == {0, 1}

\* what the derived array holds before the call
PriorCells == {Indeterminate} \cup {FilledNode(fill) : fill \in PriorFills}

CellInputs(channel) ==
    [value : {0, 1, 128, 255}, active : BOOLEAN, vector : RiskInputs,
     channel : {channel}, polarity : {-1, 0, 1}]

CombineSlots == 0 .. (MaxSlots - 1)

CombineInit ==
    \E r \in CellInputs(RED_CHANNEL), g \in CellInputs(GREEN_CHANNEL),
       prior \in PriorCells, n \in 0 .. MaxSlots :
        cc = [phase  |-> "called",
              red    |-> [s \in CombineSlots |-> r],
              green  |-> [s \in CombineSlots |-> g],
              before |-> [s \in CombineSlots |-> prior],
              cyan   |-> [s \in CombineSlots |-> prior],
              n      |-> n]

Combine ==
    /\ cc.phase = "called"
    /\ cc' = [cc EXCEPT !.phase = "done",
                        !.cyan = combine_channels(cc.cyan, cc.red, cc.green, cc.n)]

MinimalIdle ==
    /\ grid = << >>
    /\ idx = << >>
    /\ obs = 0
    /\ pc = "idle"
    /\ ev = "none"
    /\ nev = 0
    /\ stopped = FALSE
    /\ cycles = 0
    /\ packet = NoPacket
    /\ verdict = "none"

SpecCombineInit == CombineInit /\ MinimalIdle /\ TraceIdle /\ DimIdle /\ CallIdle

SpecCombineNext == Combine /\ UNCHANGED <<minimalVars, tr, dimVars, callVars>>

SpecCombine == SpecCombineInit /\ [][SpecCombineNext]_vars

(***************************************************************************)
(* Claims about the minimal engine, checked under Spec.                    *)
(***************************************************************************)
HandledEvent == nev' = nev + 1

ConsumePcs == {"consume_red", "consume_green", "consume_blue", "consume_cyan"}

SameTriple == idx'.i = idx.i /\ idx'.j = idx.j /\ idx'.k = idx.k

\* C1: after any sequence of navigation events the six stored permutations
\* are the six orderings of the current (i,j,k) in canonical order, so the
\* protocol cycle samples the slots of the current triple.
C1_PermutationsFollowTriple ==
    pc # "idle" => idx.permutations = PermutationsOf(idx.i, idx.j, idx.k)

\* C2: in every reachable state of the minimal engine every slot has
\* cyan.active = (red.active AND green.active) and, where cyan is active,
\* cyan.value = (red.value + green.value) / 2.  Stated for the slots whose
\* derived cell holds an active flag: the cells combine_channels never
\* writes are the matter of C3.
C2_DerivedInvariant ==
    pc # "idle" =>
        \A s \in Slots :
            Determinate(grid.cyan[s], "active") =>
                /\ grid.cyan[s].active = (grid.red[s].active /\ grid.green[s].active)
                /\ grid.cyan[s].active =>
                       /\ Determinate(grid.cyan[s], "value")
                       /\ grid.cyan[s].value
                              = (grid.red[s].value + grid.green[s].value) \div 2

\* C8: handle_trident_event implements the transition table with N = 10:
\* Start sets (0,0,0); Up / Down set i to (i+1) mod 10 / (i-1) mod 10;
\* Right / Left set j to (j+1) mod 10 / (j-1) mod 10; Back sets k to
\* (k-1) mod 10; every result is non-negative; each event changes only its
\* own coordinate and never the grid.
C8_TransitionTable ==
    [][HandledEvent =>
          /\ grid' = grid
          /\ idx'.i \in 0 .. 9 /\ idx'.j \in 0 .. 9 /\ idx'.k \in 0 .. 9
          /\ ev' = "EVENT_START" => idx'.i = 0 /\ idx'.j = 0 /\ idx'.k = 0
          /\ ev' = "EVENT_UP" =>
                 idx'.i = (idx.i + 1) % 10 /\ idx'.j = idx.j /\ idx'.k = idx.k
          /\ ev' = "EVENT_DOWN" =>
                 idx'.i = (idx.i - 1) % 10 /\ idx'.j = idx.j /\ idx'.k = idx.k
          /\ ev' = "EVENT_RIGHT" =>
                 idx'.j = (idx.j + 1) % 10 /\ idx'.i = idx.i /\ idx'.k = idx.k
          /\ ev' = "EVENT_LEFT" =>
                 idx'.j = (idx.j - 1) % 10 /\ idx'.i = idx.i /\ idx'.k = idx.k
          /\ ev' = "EVENT_BACK" =>
                 idx'.k = (idx.k - 1) % 10 /\ idx'.i = idx.i /\ idx'.j = idx.j
          /\ ev' \in {"EVENT_ENTER", "EVENT_STOP"} => SameTriple]_vars

\* C8 witness: after three events Down handled at i = 0 has wrapped to 9,
\* with j moved to 1 by an earlier event and k left alone.
C8_Witness ==
    nev = 3 /\ ev = "EVENT_DOWN" /\ idx.i = 9 /\ idx.j = 1 /\ idx.k = 0

\* C9: Stop is terminal: once EVENT_STOP has been handled no later event
\* changes (i,j,k) and no later Enter starts a protocol cycle or an
\* observer consumption.
C9_StopTerminal ==
    [][stopped =>
          /\ SameTriple
          /\ cycles' = cycles
          /\ pc' \notin ({"cycle"} \cup ConsumePcs)]_vars

\* C10: handling Enter leaves (i,j,k), the stored permutations and the grid
\* unchanged; each Enter is followed by exactly one protocol cycle on the
\* index as it stands at that Enter, which completes before any observer
\* consumption of that Enter (RED, GREEN, BLUE, CYAN in that order); no
\* event other than Enter starts a protocol cycle.
C10_EnterCommits ==
    [][/\ (HandledEvent /\ ev' = "EVENT_ENTER") =>
              idx' = idx /\ grid' = grid /\ pc' = "cycle" /\ cycles' = cycles
       /\ (HandledEvent /\ ev' # "EVENT_ENTER") =>
              pc' = "events" /\ cycles' = cycles
       /\ pc' = "cycle" => (HandledEvent /\ ev' = "EVENT_ENTER")
       /\ pc = "cycle" =>
              /\ ev = "EVENT_ENTER"
              /\ cycles' = cycles + 1
              /\ idx' = idx /\ grid' = grid /\ obs' = obs
              /\ packet' = nsigii_protocol_cycle(grid, idx).packet
              /\ pc' = "consume_red"
       /\ cycles' # cycles => pc = "cycle"
       /\ pc = "consume_red" => pc' = "consume_green"
       /\ pc = "consume_green" => pc' = "consume_blue"
       /\ pc = "consume_blue" => pc' = "consume_cyan"
       /\ pc = "consume_cyan" => pc' = "events"
       /\ pc \in ConsumePcs => idx' = idx /\ cycles' = cycles /\ nev' = nev
       /\ (grid' # grid \/ obs' # obs) => pc \in ConsumePcs]_vars

\* C10 witness: an Enter away from the initial triple has run its protocol
\* cycle and all four consumptions, at least one of which consumed.
C10_Witness ==
    /\ pc = "events" /\ ev = "EVENT_ENTER" /\ cycles = 1 /\ obs > 0
    /\ idx.permutations # PermutationsOf(idx.i, idx.j, idx.k)

(***************************************************************************)
(* Claims about combine_channels, checked under SpecCombine.               *)
(***************************************************************************)
Combined(s) == cc.phase = "done" /\ s < cc.n

BothActive(s) == cc.red[s].active /\ cc.green[s].active

ZeroVector ==
    [attack_risk |-> FZero, rollback_cost |-> FZero, stability_impact |-> FZero]

\* C3: for every slot where the red or the green input cell is inactive,
\* combine_channels yields an inactive, zeroed derived cell whatever the
\* derived array held before the call.
C3_InactiveYieldsZeroed ==
    \A s \in CombineSlots :
        (Combined(s) /\ ~BothActive(s)) =>
            /\ DOMAIN cc.cyan[s] = DOMAIN FilledNode(0)
            /\ cc.cyan[s].active = FALSE
            /\ cc.cyan[s].value = 0
            /\ cc.cyan[s].polarity = 0
            /\ cc.cyan[s].vector = ZeroVector

\* the mean of two polarities rounded toward zero
MeanTowardZero(sum) ==
    CASE sum >= 2 -> 1
      [] sum <= -2 -> -1
      [] OTHER -> 0

\* C4: for every slot where both input cells are active, combine_channels
\* sets the derived cell active with channel tag CYAN, value =
\* (red.value + green.value) / 2 without 8-bit wrap-around, polarity = the
\* mean of the polarities truncated toward zero and in {-1, 0, +1}, and each
\* risk component equal to the mean of the two inputs' components (twice the
\* component is the float sum of the two), whatever the derived cell held.
C4_CombineActive ==
    \A s \in CombineSlots :
        (Combined(s) /\ BothActive(s)) =>
            LET r == cc.red[s]
                g == cc.green[s]
                c == cc.cyan[s]
            IN  /\ DOMAIN c = DOMAIN FilledNode(0)
                /\ c.active = TRUE
                /\ c.channel = 3
                /\ c.value = (r.value + g.value) \div 2
                /\ c.polarity \in {-1, 0, 1}
                /\ c.polarity = MeanTowardZero(r.polarity + g.polarity)
                /\ FMulInt(c.vector.attack_risk, 2)
                       = FAdd(r.vector.attack_risk, g.vector.attack_risk)
                /\ FMulInt(c.vector.rollback_cost, 2)
                       = FAdd(r.vector.rollback_cost, g.vector.rollback_cost)
                /\ FMulInt(c.vector.stability_impact, 2)
                       = FAdd(r.vector.stability_impact, g.vector.stability_impact)

\* C4 witness: two active cells whose byte sum exceeds 255 and whose
\* polarity sum is negative and odd have been combined.
C4_Witness ==
    \E s \in CombineSlots :
        /\ Combined(s) /\ BothActive(s)
        /\ cc.red[s].value = 255 /\ cc.green[s].value = 255
        /\ cc.red[s].polarity = -1 /\ cc.green[s].polarity = 0
        /\ cc.red[s].vector # cc.green[s].vector

(***************************************************************************)
(* trace_derivative (dimensional engine), in binary64 as the program       *)
(* computes it.                                                            *)
(***************************************************************************)
\* the double literals of the dimensional engine: the double nearest to a
\* decimal literal p/q with p and q doubles is the quotient of p by q
DOne == DFromInt(1)
DHalf == DDiv(DOne, DFromInt(2))
DTenth == DDiv(DOne, DFromInt(10))
DHundredth == DDiv(DOne, DFromInt(100))
DTwentieth == DDiv(DOne, DFromInt(20))
DThreeTenths == DDiv(DFromInt(3), DFromInt(10))
\* 1e-10
Epsilon == DDiv(DOne, DMul(DFromInt(100000), DFromInt(100000)))

\* double coeffs[4] = {4.0, 3.0, 2.0, 1.0}
Coeffs == <<DFromInt(4), DFromInt(3), DFromInt(2), DFromInt(1)>>

\* double t_powers[4] = {1.0, time, time*time, time*time*time}
TPowers(time) == <<DOne, time, DMul(time, time), DMul(DMul(time, time), time)>>

\* fabs(node->trace[4]) < 1e-10
Terminated(trace) == DLess(DAbs(trace[5]), Epsilon)

\* value_at_time: the sum the loop accumulates from 0.0,
\* coeffs[i] * t_powers[i] for i = 0 .. 3
ValueAtTime(coeffs, t_powers) ==
    DAdd(DAdd(DAdd(DAdd(DZero, DMul(coeffs[1], t_powers[1])),
                   DMul(coeffs[2], t_powers[2])),
              DMul(coeffs[3], t_powers[3])),
         DMul(coeffs[4], t_powers[4]))

\* the DerivativeNode that holds trace
DerivativeNode(trace) ==
    [value |-> trace[1], order |-> 4, trace |-> trace,
     terminated |-> Terminated(trace)]

\* mutant: the cubic term of the first derivative is 3*c3*t, not 3*c3*t*t
trace_derivative_linear(initial, time) ==
    DerivativeNode(<<ValueAtTime(Coeffs, TPowers(time)),
                     DAdd(DAdd(Coeffs[2], DMul(DMul(DFromInt(2), Coeffs[3]), time)),
                          DMul(DMul(DFromInt(3), Coeffs[4]), time)),
                     DAdd(DMul(DFromInt(2), Coeffs[3]),
                          DMul(DMul(DFromInt(6), Coeffs[4]), time)),
                     DMul(DFromInt(6), Coeffs[4]),
                     DZero>>)

\* node->trace[0 .. 4] for node->value = value
Trace(coeffs, time, value) ==
    <<value,
      DAdd(DAdd(coeffs[2], DMul(DMul(DFromInt(2), coeffs[3]), time)),
           DMul(DMul(DMul(DFromInt(3), coeffs[4]), time), time)),
      DAdd(DMul(DFromInt(2), coeffs[3]),
           DMul(DMul(DFromInt(6), coeffs[4]), time)),
      DMul(DFromInt(6), coeffs[4]),
      DZero>>

\* the DerivativeNode after trace_derivative(node, initial, time): the
\* stores of initial into value and trace[0] are overwritten
trace_derivative(initial, time) ==
    DerivativeNode(Trace(Coeffs, time, ValueAtTime(Coeffs, TPowers(time))))

(***************************************************************************)
(* trace_derivative called on its own, as main does with (1.0, 2.0), at    *)
(* the times n / 8: the cubic and its derivatives are then doubles and the *)
(* program computes them without rounding.                                 *)
(***************************************************************************)
TraceInitials == {DFromInt(-1), DZero, DOne}

TraceTime(n) == DDiv(DFromInt(n), DFromInt(8))

TraceInit ==
    \E initial \in TraceInitials, n \in 0 .. MaxTraceTime :
        tr = [phase |-> "called", initial |-> initial, time |-> TraceTime(n)]

TraceDerivative ==
    /\ tr.phase = "called"
    /\ tr' = [phase |-> "done", initial |-> tr.initial, time |-> tr.time,
              node |-> trace_derivative(tr.initial, tr.time)]

SpecTraceInit == TraceInit /\ MinimalIdle /\ CombineIdle /\ DimIdle /\ CallIdle

SpecTraceNext == TraceDerivative /\ UNCHANGED <<minimalVars, cc, dimVars, callVars>>

SpecTrace == SpecTraceInit /\ [][SpecTraceNext]_vars

(***************************************************************************)
(* Claims about trace_derivative, checked under SpecTrace.                 *)
(***************************************************************************)
\* the derivative of the polynomial with coefficients c (constant term first)
PolyDerivative(c) == [m \in 1 .. (Len(c) - 1) |-> m * c[m + 1]]

RECURSIVE Power(_, _)
Power(b, e) == IF e = 0 THEN 1 ELSE b * Power(b, e - 1)

\* 512 times the polynomial with coefficients c at n / 8
RECURSIVE PolyValue(_, _, _)
PolyValue(c, n, m) ==
    IF m > Len(c) THEN 0
    ELSE c[m] * Power(n, m - 1) * Power(8, 4 - m) + PolyValue(c, n, m + 1)

ReferencePolynomial == <<4, 3, 2, 1>>

\* the n with time = n / 8
Eighths(time) == CHOOSE n \in 0 .. MaxTraceTime : TraceTime(n) = time

\* f and its first four derivatives at time, as doubles
DerivativesAt(time) ==
    LET n == Eighths(time)
        f0 == ReferencePolynomial
        f1 == PolyDerivative(f0)
        f2 == PolyDerivative(f1)
        f3 == PolyDerivative(f2)
        f4 == PolyDerivative(f3)
        at(c) == DDiv(DFromInt(PolyValue(c, n, 1)), DFromInt(512))
    IN  <<at(f0), at(f1), at(f2), at(f3), at(f4)>>

DemoCall ==
    tr.phase = "done" /\ tr.initial = DOne /\ tr.time = DFromInt(2)

\* C7 as stated: trace[0..4] hold the value and the first four derivatives
\* of f(t) = 4 + 3t + 2t^2 + t^3 at t, and trace(1.0, 2.0) gives
\* 26, 17, 10, 6, 0 with terminated = true.
C7_TraceAsStated ==
    /\ tr.phase = "done" => tr.node.trace = DerivativesAt(tr.time)
    /\ DemoCall =>
           /\ tr.node.trace = <<DFromInt(26), DFromInt(17), DFromInt(10),
                                DFromInt(6), DZero>>
           /\ tr.node.terminated = TRUE

\* C7 amended: trace[0..4] hold the value and the first four derivatives
\* of f(t) = 4 + 3t + 2t^2 + t^3 at t, and trace(1.0, 2.0) gives
\* 26, 23, 16, 6, 0 with terminated = true.
C7_TraceDerivatives ==
    /\ tr.phase = "done" => tr.node.trace = DerivativesAt(tr.time)
    /\ DemoCall =>
           /\ tr.node.trace = <<DFromInt(26), DFromInt(23), DFromInt(16),
                                DFromInt(6), DZero>>
           /\ tr.node.terminated = TRUE

\* C7 witness: trace_derivative(1.0, 2.0) has returned.
C7_Witness == DemoCall /\ tr.node.order = 4

(***************************************************************************)
(* The dimensional engine.  The value, the entropy and the polarity of a   *)
(* cell are doubles.  A SparseNode is the record of those of its fields    *)
(* that hold a value: main's grid is a local it never clears, and          *)
(* init_sparse_grid writes the rows of the selected triples only.          *)
(***************************************************************************)

\* the double of an entry <<hi, lo, e>> of the tables, hi carrying the sign
Double(t) ==
    [neg |-> t[1] < 0, hi |-> IF t[1] < 0 THEN -t[1] ELSE t[1], lo |-> t[2], e |-> t[3]]

\* InitWave[s + 1] is fourier_square(s, 9), fourier_square(s + 0.5, 9) and
\* fourier_square(s + 1.0, 9) for s = i + j + k, HARMONICS being 9
InitWave ==
    <<<<<<0, 0, 0>>, <<66040262, 36583979, -53>>, <<35732191, 69631597, -52>>>>,
      <<<<35732191, 69631597, -52>>, <<35156196, 66816024, -52>>, <<65402416, 42608, -53>>>>,
      <<<<65402416, 42608, -53>>, <<60185254, 104140750, -53>>, <<54201311, 96009100, -53>>>>,
      <<<<54201311, 96009100, -53>>, <<-39061034, 88793652, -52>>, <<-35227874, 44023432, -52>>>>,
      <<<<-35227874, 44023432, -52>>, <<-64760343, 67291133, -53>>, <<-62824444, 96824150, -53>>>>,
      <<<<-62824444, 96824150, -53>>, <<-66423192, 120684704, -53>>, <<-39320820, 66274434, -52>>>>,
      <<<<-39320820, 66274434, -52>>, <<35868352, 133082792, -52>>, <<62595779, 25590440, -53>>>>,
      <<<<62595779, 25590440, -53>>, <<63022637, 41296113, -53>>, <<33760294, 133625922, -52>>>>,
      <<<<33760294, 133625922, -52>>, <<36104410, 42703657, -52>>, <<36528513, 87887594, -52>>>>,
      <<<<36528513, 87887594, -52>>, <<-62306557, 781519, -54>>, <<-61174920, 118451573, -53>>>>,
      <<<<-61174920, 118451573, -53>>, <<-34250998, 67216346, -52>>, <<-35668080, 57288169, -52>>>>,
      <<<<-35668080, 57288169, -52>>, <<-34457534, 45796131, -52>>, <<-61555624, 37796353, -53>>>>,
      <<<<-61555624, 37796353, -53>>, <<-55354436, 4809200, -54>>, <<36113858, 100693960, -52>>>>,
      <<<<36113858, 100693960, -52>>, <<36135648, 34363229, -52>>, <<33948938, 102712820, -52>>>>,
      <<<<33948938, 102712820, -52>>, <<63195498, 42204723, -53>>, <<62164867, 44373177, -53>>>>,
      <<<<62164867, 44373177, -53>>, <<35105109, 5728067, -52>>, <<-39495808, 76694787, -52>>>>,
      <<<<-39495808, 76694787, -52>>, <<-66956510, 83448394, -53>>, <<-62944446, 120320661, -53>>>>,
      <<<<-62944446, 120320661, -53>>, <<-64440282, 39951662, -53>>, <<-35033834, 132688530, -52>>>>,
      <<<<-35033834, 132688530, -52>>, <<-39272410, 81815654, -52>>, <<56784268, 89107426, -53>>>>,
      <<<<56784268, 89107426, -53>>, <<60295769, 117723981, -53>>, <<65031483, 23592074, -53>>>>,
      <<<<65031483, 23592074, -53>>, <<35026680, 120631129, -52>>, <<35846252, 97245806, -52>>>>,
      <<<<35846252, 97245806, -52>>, <<66811845, 33577096, -53>>, <<-60479200, 43651822, -57>>>>,
      <<<<-60479200, 43651822, -57>>, <<-65300707, 10251095, -53>>, <<-35602145, 77630833, -52>>>>,
      <<<<-35602145, 77630833, -52>>, <<-35272896, 98818008, -52>>, <<-65789896, 70807353, -53>>>>,
      <<<<-65789896, 70807353, -53>>, <<-60129157, 6898293, -53>>, <<-51490585, 557665, -53>>>>,
      <<<<-51490585, 557665, -53>>, <<38812002, 105926681, -52>>, <<35405753, 29650195, -52>>>>,
      <<<<35405753, 29650195, -52>>, <<65097754, 28358674, -53>>, <<62737834, 26007006, -53>>>>,
      <<<<62737834, 26007006, -53>>, <<65886169, 24919909, -53>>, <<39082530, 94001343, -52>>>>>>

RefreshWave ==
    <<<<<<0, 0, 0>>, <<34159471, 32301912, -56>>, <<34103159, 89389719, -55>>,
        <<51014290, 36866331, -55>>, <<33878901, 49746274, -54>>, <<42139676, 29860656, -54>>,
        <<50262945, 69845715, -54>>, <<58222986, 117352368, -54>>, <<65995027, 109920713, -54>>,
        <<36777693, 96858300, -53>>, <<40440805, 36621361, -53>>, <<43976296, 94422149, -53>>,
        <<47374350, 22570643, -53>>, <<50625935, 14243750, -53>>, <<53722856, 21154862, -53>>,
        <<56657795, 55447604, -53>>, <<59424348, 97253172, -53>>, <<62017055, 114235377, -53>>,
        <<64431424, 34409119, -53>>, <<66663946, 56606532, -53>>, <<34356055, 39345114, -52>>,
        <<35287202, 58515249, -52>>, <<36125157, 53767777, -52>>, <<36870157, 17534015, -52>>,
        <<37522925, 1118558, -52>>, <<38084659, 128710154, -52>>, <<38557022, 67084714, -52>>,
        <<38942117, 114346627, -52>>, <<39242476, 34041933, -52>>, <<39461030, 85111561, -52>>,
        <<39601091, 110684280, -52>>, <<39666321, 67180290, -52>>, <<39660703, 8561236, -52>>,
        <<39588510, 92553870, -52>>, <<39454276, 103554270, -52>>, <<39262758, 1562590, -52>>,
        <<39018900, 54831185, -52>>, <<38727803, 54294189, -52>>, <<38394683, 61230392, -52>>,
        <<38024837, 39660375, -52>>, <<37623605, 19996708, -52>>, <<37196334, 24325796, -52>>,
        <<36748342, 56951990, -52>>, <<36284883, 60427658, -52>>, <<35811112, 4717821, -52>>,
        <<35332051, 7453883, -52>>, <<34852559, 113299821, -52>>, <<34377304, 29822550, -52>>,
        <<33910728, 54851804, -52>>, <<66914057, 132228110, -53>>, <<66040262, 36583979, -53>>,
        <<65207334, 42984607, -53>>, <<64421915, 37327008, -53>>, <<63689990, 32628276, -53>>,
        <<63016861, 16262785, -53>>, <<62407125, 6568044, -53>>, <<61864658, 62775551, -53>>,
        <<61392606, 120516623, -53>>, <<60993380, 56091868, -53>>, <<60668654, 108363928, -53>>,
        <<60419378, 36493678, -53>>, <<60245783, 83680803, -53>>, <<60147405, 100677383, -53>>,
        <<60123104, 22656818, -53>>, <<60171090, 56148103, -53>>, <<60288960, 1747567, -53>>,
        <<60473728, 86700479, -53>>, <<60721872, 40253816, -53>>, <<61029370, 120349496, -53>>,
        <<61391755, 12365103, -53>>, <<61804155, 107752152, -53>>, <<62261356, 4416316, -53>>,
        <<62757844, 74686558, -53>>, <<63287870, 134198538, -53>>, <<63845501, 115790134, -53>>,
        <<64424677, 1734320, -53>>, <<65019266, 25870448, -53>>, <<65623125, 10348074, -53>>,
        <<66230150, 58266414, -53>>, <<66834333, 127474874, -53>>, <<33714907, 19697990, -52>>,
        <<34005463, 68530250, -52>>, <<34286125, 129666168, -52>>, <<34554328, 102272308, -52>>,
        <<34807671, 14305421, -52>>, <<35043936, 1540748, -52>>, <<35261107, 31462437, -52>>,
        <<35457384, 27387156, -52>>, <<35631194, 111062328, -52>>, <<35781206, 13376981, -52>>,
        <<35906332, 60820673, -52>>, <<36005741, 108131093, -52>>, <<36078859, 37957458, -52>>,
        <<36125368, 82292142, -52>>, <<36145211, 28346769, -52>>, <<36138582, 132225028, -52>>,
        <<36105928, 123813741, -52>>, <<36047935, 70729743, -52>>, <<35965521, 26397615, -52>>,
        <<35859824, 87177544, -52>>, <<35732191, 69631597, -52>>, <<35584159, 34218545, -52>>,
        <<35417440, 64903631, -52>>, <<35233904, 131676361, -52>>, <<35035560, 59057206, -52>>,
        <<34824532, 27517777, -52>>, <<34603042, 22450896, -52>>, <<34373387, 1528447, -52>>,
        <<34137916, 1681514, -52>>, <<33899008, 78331328, -52>>, <<33659051, 103793291, -52>>,
        <<66840835, 111206444, -53>>, <<66370885, 31699139, -53>>, <<65912806, 83035965, -53>>,
        <<65470996, 130074550, -53>>, <<65049655, 100598612, -53>>, <<64652747, 48443502, -53>>,
        <<64283966, 10329868, -53>>, <<63946703, 98510513, -53>>, <<63644020, 59884881, -53>>,
        <<63378618, 78592194, -53>>, <<63152820, 31654871, -53>>, <<62968548, 40131240, -53>>,
        <<62827311, 53521613, -53>>, <<62730192, 92899510, -53>>, <<62677842, 89192990, -53>>,
        <<62670475, 127331389, -53>>, <<62707872, 23142237, -53>>, <<62789380, 107906657, -53>>,
        <<62913929, 124715985, -53>>, <<63080038, 115481120, -53>>, <<63285834, 59429139, -53>>,
        <<63529070, 119891691, -53>>, <<63807152, 130869921, -53>>, <<64117162, 38018551, -53>>,
        <<64455886, 52328033, -53>>, <<64819850, 76822554, -53>>, <<65205351, 111141044, -53>>,
        <<65608494, 115066218, -53>>, <<66025229, 91570081, -53>>, <<66451390, 74401163, -53>>,
        <<66882735, 106501799, -53>>, <<33657494, 13070246, -52>>, <<33871937, 109641555, -52>>,
        <<34082585, 100827291, -52>>, <<34287367, 40776241, -52>>, <<34484274, 11560094, -52>>,
        <<34671378, 106471531, -52>>, <<34846853, 38163542, -52>>, <<35008985, 94614680, -52>>,
        <<35156196, 66816024, -52>>, <<35287053, 21196771, -52>>, <<35400283, 80450386, -52>>,
        <<35494788, 1987126, -52>>, <<35569649, 16151956, -52>>, <<35624140, 93327578, -52>>,
        <<35657734, 45588079, -52>>, <<35670104, 52139657, -52>>, <<35661130, 126256244, -52>>,
        <<35630900, 130689914, -52>>, <<35579707, 71783409, -52>>, <<35508047, 2166138, -52>>,
        <<35416614, 72173423, -52>>, <<35306297, 64439763, -52>>, <<35178167, 30040951, -52>>,
        <<35033469, 22836869, -52>>, <<34873611, 17744197, -52>>, <<34700150, 26892698, -52>>,
        <<34514778, 26810697, -52>>, <<34319305, 116800349, -52>>, <<34115645, 122260413, -52>>,
        <<33905795, 5589414, -52>>, <<33691815, 32596859, -52>>, <<66951628, 92058005, -53>>,
        <<66519852, 34432789, -53>>, <<66092580, 41883988, -53>>, <<65674062, 121486271, -53>>,
        <<65268480, 75682948, -53>>, <<64879904, 45318683, -53>>, <<64512256, 96244325, -53>>,
        <<64169273, 105565386, -53>>, <<63854468, 128540513, -53>>, <<63571098, 83222087, -53>>,
        <<63322130, 3714459, -53>>, <<63110211, 97141701, -53>>, <<62937646, 104973186, -53>>,
        <<62806369, 16276154, -53>>, <<62717923, 16187978, -53>>, <<62673446, 99229474, -53>>,
        <<62673658, 41458744, -53>>, <<62718847, 18539007, -53>>, <<62808868, 4857867, -53>>,
        <<62943139, 110773553, -53>>, <<63120647, 118052340, -53>>, <<63339950, 92680085, -53>>,
        <<63599190, 57134078, -53>>, <<63896107, 54880122, -53>>, <<64228058, 56106149, -53>>,
        <<64592038, 88621827, -53>>, <<64984707, 33862642, -53>>, <<65402416, 42608, -53>>,
        <<65841241, 32942372, -53>>, <<66297018, 68479304, -53>>, <<66765379, 88143250, -53>>,
        <<33620896, 16252228, -52>>, <<33860800, 49431615, -52>>, <<34100034, 83776788, -52>>,
        <<34336212, 93152836, -52>>, <<34566952, 59572158, -52>>, <<34789898, 39146979, -52>>,
        <<35002743, 91494486, -52>>, <<35203253, 45681423, -52>>, <<35389285, 15358510, -52>>,
        <<35558811, 25867053, -52>>, <<35709938, 69387615, -52>>, <<35840928, 25874910, -52>>,
        <<35950213, 96426139, -52>>, <<36036417, 115185544, -52>>, <<36098367, 133782391, -52>>,
        <<36135109, 110454240, -52>>, <<36145919, 27408959, -52>>, <<36130312, 17058751, -52>>,
        <<36088052, 79824331, -52>>, <<36019158, 52152649, -52>>, <<35923904, 83062286, -52>>,
        <<35802825, 909040, -52>>, <<35656710, 115322691, -52>>, <<35486607, 96257433, -52>>,
        <<35293809, 90904137, -52>>, <<35079851, 54564316, -52>>, <<34846497, 119321325, -52>>,
        <<34595731, 129332304, -52>>, <<34329739, 98006657, -52>>, <<34050893, 123608754, -52>>,
        <<33761735, 47063519, -52>>, <<66929905, 20923355, -53>>, <<66326719, 114077662, -53>>,
        <<65719748, 4881590, -53>>, <<65114978, 7298196, -53>>, <<64518501, 78072888, -53>>,
        <<63936460, 8354789, -53>>, <<63374989, 97903494, -53>>, <<62840165, 88697046, -53>>,
        <<62337945, 42014259, -53>>, <<61874111, 133381004, -53>>, <<61454218, 98581486, -53>>,
        <<61083533, 3678775, -53>>, <<60766982, 119392656, -53>>, <<60509104, 95318063, -53>>,
        <<60313993, 44103951, -53>>>>,
      <<<<40440805, 36621361, -53>>, <<43976296, 94422149, -53>>, <<47374350, 22570646, -53>>,
        <<50625935, 14243750, -53>>, <<53722856, 21154862, -53>>, <<56657795, 55447605, -53>>,
        <<59424348, 97253172, -53>>, <<62017055, 114235377, -53>>, <<64431424, 34409119, -53>>,
        <<66663946, 56606532, -53>>, <<34356055, 39345114, -52>>, <<35287202, 58515249, -52>>,
        <<36125157, 53767777, -52>>, <<36870157, 17534015, -52>>, <<37522925, 1118558, -52>>,
        <<38084659, 128710154, -52>>, <<38557022, 67084714, -52>>, <<38942117, 114346627, -52>>,
        <<39242476, 34041933, -52>>, <<39461030, 85111561, -52>>, <<39601091, 110684280, -52>>,
        <<39666321, 67180290, -52>>, <<39660703, 8561236, -52>>, <<39588510, 92553870, -52>>,
        <<39454276, 103554270, -52>>, <<39262758, 1562592, -52>>, <<39018900, 54831185, -52>>,
        <<38727803, 54294189, -52>>, <<38394683, 61230392, -52>>, <<38024837, 39660375, -52>>,
        <<37623605, 19996708, -52>>, <<37196334, 24325796, -52>>, <<36748342, 56951990, -52>>,
        <<36284883, 60427658, -52>>, <<35811112, 4717820, -52>>, <<35332051, 7453881, -52>>,
        <<34852559, 113299821, -52>>, <<34377304, 29822551, -52>>, <<33910728, 54851804, -52>>,
        <<66914057, 132228110, -53>>, <<66040262, 36583979, -53>>, <<65207334, 42984607, -53>>,
        <<64421915, 37327008, -53>>, <<63689990, 32628276, -53>>, <<63016861, 16262785, -53>>,
        <<62407125, 6568044, -53>>, <<61864658, 62775551, -53>>, <<61392606, 120516623, -53>>,
        <<60993380, 56091868, -53>>, <<60668654, 108363928, -53>>, <<60419378, 36493678, -53>>,
        <<60245783, 83680803, -53>>, <<60147405, 100677383, -53>>, <<60123104, 22656818, -53>>,
        <<60171090, 56148103, -53>>, <<60288960, 1747567, -53>>, <<60473728, 86700479, -53>>,
        <<60721872, 40253816, -53>>, <<61029370, 120349495, -53>>, <<61391755, 12365102, -53>>,
        <<61804155, 107752151, -53>>, <<62261356, 4416316, -53>>, <<62757844, 74686558, -53>>,
        <<63287870, 134198538, -53>>, <<63845501, 115790134, -53>>, <<64424677, 1734320, -53>>,
        <<65019266, 25870448, -53>>, <<65623125, 10348074, -53>>, <<66230150, 58266414, -53>>,
        <<66834333, 127474874, -53>>, <<33714907, 19697990, -52>>, <<34005463, 68530250, -52>>,
        <<34286125, 129666167, -52>>, <<34554328, 102272307, -52>>, <<34807671, 14305421, -52>>,
        <<35043936, 1540748, -52>>, <<35261107, 31462437, -52>>, <<35457384, 27387156, -52>>,
        <<35631194, 111062328, -52>>, <<35781206, 13376981, -52>>, <<35906332, 60820673, -52>>,
        <<36005741, 108131093, -52>>, <<36078859, 37957458, -52>>, <<36125368, 82292142, -52>>,
        <<36145211, 28346770, -52>>, <<36138582, 132225028, -52>>, <<36105928, 123813741, -52>>,
        <<36047935, 70729743, -52>>, <<35965521, 26397615, -52>>, <<35859824, 87177544, -52>>,
        <<35732191, 69631597, -52>>, <<35584159, 34218545, -52>>, <<35417440, 64903631, -52>>,
        <<35233904, 131676361, -52>>, <<35035560, 59057206, -52>>, <<34824532, 27517777, -52>>,
        <<34603042, 22450896, -52>>, <<34373387, 1528447, -52>>, <<34137916, 1681514, -52>>,
        <<33899008, 78331328, -52>>, <<33659051, 103793291, -52>>, <<66840835, 111206444, -53>>,
        <<66370885, 31699139, -53>>, <<65912806, 83035965, -53>>, <<65470996, 130074550, -53>>,
        <<65049655, 100598612, -53>>, <<64652747, 48443499, -53>>, <<64283966, 10329866, -53>>,
        <<63946703, 98510510, -53>>, <<63644020, 59884883, -53>>, <<63378618, 78592192, -53>>,
        <<63152820, 31654870, -53>>, <<62968548, 40131240, -53>>, <<62827311, 53521612, -53>>,
        <<62730192, 92899510, -53>>, <<62677842, 89192989, -53>>, <<62670475, 127331389, -53>>,
        <<62707872, 23142237, -53>>, <<62789380, 107906657, -53>>, <<62913929, 124715985, -53>>,
        <<63080038, 115481120, -53>>, <<63285834, 59429139, -53>>, <<63529070, 119891691, -53>>,
        <<63807152, 130869921, -53>>, <<64117162, 38018551, -53>>, <<64455886, 52328033, -53>>,
        <<64819850, 76822554, -53>>, <<65205351, 111141044, -53>>, <<65608494, 115066218, -53>>,
        <<66025229, 91570081, -53>>, <<66451390, 74401163, -53>>, <<66882735, 106501799, -53>>,
        <<33657494, 13070247, -52>>, <<33871937, 109641555, -52>>, <<34082585, 100827292, -52>>,
        <<34287367, 40776242, -52>>, <<34484274, 11560094, -52>>, <<34671378, 106471531, -52>>,
        <<34846853, 38163541, -52>>, <<35008985, 94614679, -52>>, <<35156196, 66816024, -52>>,
        <<35287053, 21196771, -52>>, <<35400283, 80450386, -52>>, <<35494788, 1987126, -52>>,
        <<35569649, 16151956, -52>>, <<35624140, 93327578, -52>>, <<35657734, 45588079, -52>>,
        <<35670104, 52139657, -52>>, <<35661130, 126256244, -52>>, <<35630900, 130689914, -52>>,
        <<35579707, 71783409, -52>>, <<35508047, 2166138, -52>>, <<35416614, 72173423, -52>>,
        <<35306297, 64439763, -52>>, <<35178167, 30040951, -52>>, <<35033469, 22836869, -52>>,
        <<34873611, 17744197, -52>>, <<34700150, 26892697, -52>>, <<34514778, 26810698, -52>>,
        <<34319305, 116800349, -52>>, <<34115645, 122260413, -52>>, <<33905795, 5589415, -52>>,
        <<33691815, 32596858, -52>>, <<66951628, 92058006, -53>>, <<66519852, 34432789, -53>>,
        <<66092580, 41883986, -53>>, <<65674062, 121486273, -53>>, <<65268480, 75682948, -53>>,
        <<64879904, 45318683, -53>>, <<64512256, 96244325, -53>>, <<64169273, 105565386, -53>>,
        <<63854468, 128540513, -53>>, <<63571098, 83222087, -53>>, <<63322130, 3714459, -53>>,
        <<63110211, 97141701, -53>>, <<62937646, 104973186, -53>>, <<62806369, 16276154, -53>>,
        <<62717923, 16187978, -53>>, <<62673446, 99229474, -53>>, <<62673658, 41458744, -53>>,
        <<62718847, 18539007, -53>>, <<62808868, 4857867, -53>>, <<62943139, 110773555, -53>>,
        <<63120647, 118052343, -53>>, <<63339950, 92680082, -53>>, <<63599190, 57134081, -53>>,
        <<63896107, 54880124, -53>>, <<64228058, 56106145, -53>>, <<64592038, 88621829, -53>>,
        <<64984707, 33862645, -53>>, <<65402416, 42608, -53>>, <<65841241, 32942372, -53>>,
        <<66297018, 68479304, -53>>, <<66765379, 88143251, -53>>, <<33620896, 16252228, -52>>,
        <<33860800, 49431615, -52>>, <<34100034, 83776788, -52>>, <<34336212, 93152836, -52>>,
        <<34566952, 59572158, -52>>, <<34789898, 39146979, -52>>, <<35002743, 91494486, -52>>,
        <<35203253, 45681424, -52>>, <<35389285, 15358510, -52>>, <<35558811, 25867054, -52>>,
        <<35709938, 69387615, -52>>, <<35840928, 25874910, -52>>, <<35950213, 96426139, -52>>,
        <<36036417, 115185544, -52>>, <<36098367, 133782391, -52>>, <<36135109, 110454240, -52>>,
        <<36145919, 27408959, -52>>, <<36130312, 17058751, -52>>, <<36088052, 79824331, -52>>,
        <<36019158, 52152649, -52>>, <<35923904, 83062286, -52>>, <<35802825, 909040, -52>>,
        <<35656710, 115322691, -52>>, <<35486607, 96257433, -52>>, <<35293809, 90904137, -52>>,
        <<35079851, 54564316, -52>>, <<34846497, 119321325, -52>>, <<34595731, 129332304, -52>>,
        <<34329739, 98006656, -52>>, <<34050893, 123608754, -52>>, <<33761735, 47063517, -52>>,
        <<66929905, 20923355, -53>>, <<66326719, 114077655, -53>>, <<65719748, 4881590, -53>>,
        <<65114978, 7298195, -53>>, <<64518501, 78072888, -53>>, <<63936460, 8354786, -53>>,
        <<63374989, 97903494, -53>>, <<62840165, 88697046, -53>>, <<62337945, 42014259, -53>>,
        <<61874111, 133381004, -53>>, <<61454218, 98581486, -53>>, <<61083533, 3678775, -53>>,
        <<60766982, 119392656, -53>>, <<60509104, 95318063, -53>>, <<60313993, 44103951, -53>>,
        <<60185254, 104140750, -53>>, <<60125962, 13106435, -53>>, <<60138614, 87784563, -53>>,
        <<60225101, 36346290, -53>>, <<60386667, 78763785, -53>>, <<60623887, 122883911, -53>>,
        <<60936641, 121312233, -53>>, <<61324096, 31947437, -53>>, <<61784691, 81717807, -53>>,
        <<62316135, 14553342, -53>>>>,
      <<<<37496169, 41693537, -52>>, <<38157420, 42156822, -52>>, <<38690784, 68175614, -52>>,
        <<39100180, 89842523, -52>>, <<39390388, 119564251, -52>>, <<39566990, 86926518, -52>>,
        <<39636301, 117004273, -52>>, <<39605299, 105967299, -52>>, <<39481544, 46104548, -52>>,
        <<39273095, 9136819, -52>>, <<38988424, 44423408, -52>>, <<38636327, 118629417, -52>>,
        <<38225833, 91961785, -52>>, <<37766109, 130051318, -52>>, <<37266373, 71375728, -52>>,
        <<36735799, 26640790, -52>>, <<36183431, 54362954, -52>>, <<35618098, 107979063, -52>>,
        <<35048332, 101955779, -52>>, <<34482290, 71670944, -52>>, <<33927683, 125329110, -52>>,
        <<66783428, 22518541, -53>>, <<65762025, 120042246, -53>>, <<64803184, 30699867, -53>>,
        <<63917598, 81994223, -53>>, <<63114565, 116380584, -53>>, <<62401929, 130838126, -53>>,
        <<61786044, 105745486, -53>>, <<61271753, 114088944, -53>>, <<60862387, 31318719, -53>>,
        <<60559775, 19686561, -53>>, <<60364277, 117437786, -53>>, <<60274831, 57838872, -53>>,
        <<60289008, 17596772, -53>>, <<60403091, 20109422, -53>>, <<60612161, 128525492, -53>>,
        <<60910199, 56177246, -53>>, <<61290189, 27506254, -53>>, <<61744242, 11559293, -53>>,
        <<62263719, 76239284, -53>>, <<62839365, 39549387, -53>>, <<63461440, 77756102, -53>>,
        <<64119862, 54728769, -53>>, <<64804342, 33613608, -53>>, <<65504524, 4715764, -53>>,
        <<66210119, 89162926, -53>>, <<66911040, 68978474, -53>>, <<33798761, 95283605, -52>>,
        <<34130124, 117095002, -52>>, <<34445228, 14876031, -52>>, <<34740018, 25740690, -52>>,
        <<35010815, 102287938, -52>>, <<35254355, 18020140, -52>>, <<35467817, 133308312, -52>>,
        <<35648860, 96567365, -52>>, <<35795635, 13999321, -52>>, <<35906802, 42502644, -52>>,
        <<35981540, 8766066, -52>>, <<36019542, 131934391, -52>>, <<36021016, 45989008, -52>>,
        <<35986663, 39638817, -52>>, <<35917665, 120354548, -52>>, <<35815660, 35157305, -52>>,
        <<35682706, 34448743, -52>>, <<35521252, 26036678, -52>>, <<35334095, 8486489, -52>>,
        <<35124336, 116063019, -52>>, <<34895337, 89440116, -52>>, <<34650666, 4060280, -52>>,
        <<34394047, 64811471, -52>>, <<34129311, 96422965, -52>>, <<33860339, 31063014, -52>>,
        <<33591008, 10086108, -52>>, <<66650282, 115428711, -53>>, <<66132913, 40321052, -53>>,
        <<65637032, 114957883, -53>>, <<65169365, 49329673, -53>>, <<64736147, 64725130, -53>>,
        <<64343050, 83755136, -53>>, <<63995111, 65769257, -53>>, <<63696671, 119260840, -53>>,
        <<63451328, 79381205, -53>>, <<63261893, 99525304, -53>>, <<63130366, 28895461, -53>>,
        <<63057914, 26100251, -53>>, <<63044869, 7275353, -53>>, <<63090730, 70871251, -53>>,
        <<63194182, 129429563, -53>>, <<63353122, 46648181, -53>>, <<63564693, 83326917, -53>>,
        <<63825337, 96236447, -53>>, <<64130847, 78486362, -53>>, <<64476432, 51700774, -53>>,
        <<64856788, 125548776, -53>>, <<65266179, 52138828, -53>>, <<65698514, 8889077, -53>>,
        <<66147438, 40642154, -53>>, <<66606422, 15130129, -53>>, <<67068851, 63089645, -53>>,
        <<33764059, 132368006, -52>>, <<33988859, 111927982, -52>>, <<34205664, 123569486, -52>>,
        <<34411451, 39846985, -52>>, <<34603372, 6378518, -52>>, <<34778795, 30691175, -52>>,
        <<34935338, 84020983, -52>>, <<35070900, 119664131, -52>>, <<35183688, 89313978, -52>>,
        <<35272239, 46217034, -52>>, <<35335439, 29278599, -52>>, <<35372536, 101735356, -52>>,
        <<35383150, 121441305, -52>>, <<35367274, 36732193, -52>>, <<35325271, 34505246, -52>>,
        <<35257871, 10425779, -52>>, <<35166155, 121804491, -52>>, <<35051544, 31629491, -52>>,
        <<34915769, 97719420, -52>>, <<34760855, 118432764, -52>>, <<34589086, 112058918, -52>>,
        <<34402974, 97492673, -52>>, <<34205224, 10476524, -52>>, <<33998693, 89511413, -52>>,
        <<33786356, 56518871, -52>>, <<33571257, 118278959, -52>>, <<66712947, 78052419, -53>>,
        <<66290134, 104270521, -53>>, <<65880093, 128613795, -53>>, <<65488648, 94894177, -53>>,
        <<65121349, 30930009, -53>>, <<64783395, 121876078, -53>>, <<64479567, 101158715, -53>>,
        <<64214156, 100690142, -53>>, <<63990908, 125319658, -53>>, <<63812973, 1905519, -53>>,
        <<63682857, 29210705, -53>>, <<63602394, 124142242, -53>>, <<63572719, 75923676, -53>>,
        <<63594249, 13562280, -53>>, <<63666680, 40604774, -53>>, <<63788992, 121148517, -53>>,
        <<63959463, 75472266, -53>>, <<64175689, 62974718, -53>>, <<64434621, 33838064, -53>>,
        <<64732604, 103820420, -53>>, <<65065431, 32574839, -53>>, <<65428394, 131704697, -53>>,
        <<65816358, 9414555, -53>>, <<66223821, 1908038, -53>>, <<66644998, 64440159, -53>>,
        <<67073899, 12474689, -53>>, <<33752204, 14927297, -52>>, <<33965186, 43422995, -52>>,
        <<34172842, 131348983, -52>>, <<34372186, 103802248, -52>>, <<34560338, 2926616, -52>>,
        <<34734565, 3359128, -52>>, <<34892322, 73417908, -52>>, <<35031287, 116832245, -52>>,
        <<35149393, 125959912, -52>>, <<35244859, 16641786, -52>>, <<35316213, 28612216, -52>>,
        <<35362319, 31803797, -52>>, <<35382390, 112639756, -52>>, <<35376004, 124583472, -52>>,
        <<35343109, 56235778, -52>>, <<35284025, 126121889, -52>>, <<35199447, 59080765, -52>>,
        <<35090430, 95222038, -52>>, <<34958383, 117473336, -52>>, <<34805049, 3611228, -52>>,
        <<34632480, 22480557, -52>>, <<34443016, 102566116, -52>>, <<34239253, 30335230, -52>>,
        <<34024004, 93126239, -52>>, <<33800269, 77603890, -52>>, <<33571189, 43861896, -52>>,
        <<66680011, 118904589, -53>>, <<66220035, 82973404, -53>>, <<65769068, 106295418, -53>>,
        <<65333660, 122555471, -53>>, <<64920200, 84474166, -53>>, <<64534825, 97150141, -53>>,
        <<64183335, 99478151, -53>>, <<63871108, 58849112, -53>>, <<63603021, 28207205, -53>>,
        <<63383378, 78069381, -53>>, <<63215846, 106598457, -53>>, <<63103396, 56331078, -53>>,
        <<63048253, 113563512, -53>>, <<63051862, 49112582, -53>>, <<63114853, 64380882, -53>>,
        <<63237028, 120744335, -53>>, <<63417353, 80811274, -53>>, <<63653960, 18381290, -53>>,
        <<63944164, 34483053, -53>>, <<64284491, 105106560, -53>>, <<64670716, 63840862, -53>>,
        <<65097908, 71535855, -53>>, <<65560493, 27000870, -53>>, <<66052318, 112507293, -53>>,
        <<66566733, 87069323, -53>>, <<67096670, 24538906, -53>>, <<33817368, 39228620, -52>>,
        <<34086656, 98908540, -52>>, <<34352327, 84778276, -52>>, <<34610497, 42816111, -52>>,
        <<34857324, 58542265, -52>>, <<35089063, 41408943, -52>>, <<35302116, 118647527, -52>>,
        <<35493088, 68605209, -52>>, <<35658831, 116722442, -52>>, <<35796498, 50570640, -52>>,
        <<35903581, 55954554, -52>>, <<35977956, 103678587, -52>>, <<36017918, 90634478, -52>>,
        <<36022210, 126674792, -52>>, <<35990052, 97640679, -52>>, <<35921158, 59049672, -52>>,
        <<35815751, 71163451, -52>>, <<35674571, 109107732, -52>>, <<35498876, 20884502, -52>>,
        <<35290432, 53694099, -52>>, <<35051506, 64095429, -52>>, <<34784842, 102157195, -52>>,
        <<34493637, 104976175, -52>>, <<34181507, 70017203, -52>>, <<33852448, 76447990, -52>>,
        <<67021587, 6075443, -53>>, <<66322322, 18599645, -53>>, <<65616802, 75058797, -53>>,
        <<64915073, 49502959, -53>>, <<64227399, 77078416, -53>>, <<63564135, 54898219, -53>>,
        <<62935589, 47318047, -53>>, <<62351886, 59300049, -53>>, <<61822829, 64829156, -53>>,
        <<61357760, 108482709, -53>>, <<60965426, 32133290, -53>>, <<60653842, 123294069, -53>>,
        <<60430172, 86367268, -53>>, <<60300602, 40730704, -53>>, <<60270232, 127919046, -53>>,
        <<60342978, 131348057, -53>>, <<60521478, 96326422, -53>>, <<60807017, 104205430, -53>>,
        <<61199466, 21437953, -53>>, <<61697230, 24959566, -53>>, <<62297219, 134093401, -53>>,
        <<62994833, 43630069, -53>>>>>>

dim_init_tomographic_index(i, j, k) ==
    [i |-> i, j |-> j, k |-> k,
     permutations |->
         << <<i, j, k>>, <<j, i, k>>, <<i, k, j>>, <<j, k, i>>, <<k, i, j>>,
            <<k, j, i>> >>]

\* the grid of main before init_sparse_grid: no cell was written
DimStorage == [r \in Rows |-> [ch \in Channels |-> Indeterminate]]

\* the triples in the order of the three nested loops of init_sparse_grid
TripleOf(n) ==
    <<n \div (GRID_SIZE * GRID_SIZE), (n \div GRID_SIZE) % GRID_SIZE, n % GRID_SIZE>>

TripleSum(t) == t[1] + t[2] + t[3]

AllTriples == [n \in 1 .. (GRID_SIZE * GRID_SIZE * GRID_SIZE) |-> TripleOf(n - 1)]

TripleSelected(t) == TripleSum(t) % DIM_SPARSE_FACTOR = 0

\* the triples that pass (i + j + k) % SPARSE_FACTOR == 0, in loop order
SelectedTriples == SelectSeq(AllTriples, TripleSelected)

\* the number of rows init_sparse_grid writes: linear_idx < ACTIVE_SIZE caps it
FilledRows ==
    IF Len(SelectedTriples) < DIM_ACTIVE_SIZE
    THEN Len(SelectedTriples) ELSE DIM_ACTIVE_SIZE

\* 0.5 + (double)rand() / RAND_MAX * 0.5
InitEntropy(seed, n) == DAdd(DHalf, DMul(RandFraction(seed, n), DHalf))

\* the node after the stores of the fields of written
Written(node, written) ==
    [f \in DOMAIN node \cup DOMAIN written |->
        IF f \in DOMAIN written THEN written[f] ELSE node[f]]

\* the values init_sparse_grid gives the four cells of a row from those of
\* RED, GREEN and BLUE: that of CYAN is (red + green) / 2.0
ChannelValues(v) == <<v[1], v[2], v[3], DDiv(DAdd(v[1], v[2]), DFromInt(2))>>

\* the polarity of the cells of RED, GREEN, BLUE and CYAN
InitPolarity == <<DFromInt(1), DFromInt(-1), DZero, DZero>>

\* the cell init_sparse_grid writes on node for the channel ch of the triple
\* t; the idx of GREEN, BLUE and CYAN is never written
InitCell(node, ch, t, value, time_base, entropy) ==
    Written(node,
            IF ch = RED
            THEN [idx      |-> dim_init_tomographic_index(t[1], t[2], t[3]),
                  value    |-> value,
                  channel  |-> ch,
                  active   |-> TRUE,
                  deriv    |-> trace_derivative(value, time_base),
                  entropy  |-> entropy,
                  polarity |-> InitPolarity[ch + 1]]
            ELSE [value    |-> value,
                  channel  |-> ch,
                  active   |-> TRUE,
                  deriv    |-> trace_derivative(value, time_base),
                  entropy  |-> entropy,
                  polarity |-> InitPolarity[ch + 1]])

\* the row written from the values and the entropies of its four cells
InitCells(row, t, time_base, values, entropies) ==
    [ch \in Channels |->
        InitCell(row[ch], ch, t, values[ch + 1], time_base, entropies[ch + 1])]

\* the row init_sparse_grid writes for the triple t on the cells of row, its
\* rand() calls being n, n + 1 and n + 2
InitRow(row, t, seed, n) ==
    InitCells(row, t, DMul(DFromInt(TripleSum(t)), DTenth),
              ChannelValues([c \in 1 .. 3 |-> Double(InitWave[TripleSum(t) + 1][c])]),
              ChannelValues([c \in 1 .. 3 |-> InitEntropy(seed, n + c - 1)]))

\* the rows lo .. hi - 1 of the grid after init_sparse_grid, by halves
RECURSIVE InitRows(_, _, _, _)
InitRows(storage, seed, lo, hi) ==
    IF hi <= lo THEN << >>
    ELSE IF hi = lo + 1
         THEN <<IF lo < FilledRows
                THEN InitRow(storage[lo], SelectedTriples[lo + 1], seed, 3 * lo)
                ELSE storage[lo]>>
         ELSE LET mid == (lo + hi) \div 2
              IN  InitRows(storage, seed, lo, mid) \o InitRows(storage, seed, mid, hi)

\* the grid after init_sparse_grid(grid) on a grid that held storage, after
\* srand(seed)
dim_init_sparse_grid(storage, seed) ==
    LET rows == InitRows(storage, seed, 0, DIM_ACTIVE_SIZE)
    IN  [r \in Rows |-> rows[r + 1]]

(***************************************************************************)
(* nsigii_verification_cycle: the grid after the scan, active_count[4],    *)
(* the cells reported [TERMINATED] and the number of rand() calls made.    *)
(* The scan reads the active flag of every cell; garbage is what the flags *)
(* of the cells never written give.                                        *)
(***************************************************************************)
\* the cells whose active flag was never written
Unwritten(g) == {c \in Rows \X Channels : ~Determinate(g[c[1]][c[2]], "active")}

\* grid[i][ch].active as the scan reads it
ActiveRead(g, i, ch, garbage) ==
    IF Determinate(g[i][ch], "active") THEN g[i][ch].active ELSE garbage[<<i, ch>>]

ActiveInRow(g, r, upto, garbage) ==
    Cardinality({ch \in Channels : ch < upto /\ ActiveRead(g, r, ch, garbage)})

\* the number of active cells in the rows lo .. hi - 1, by halves
RECURSIVE ActiveIn(_, _, _, _)
ActiveIn(g, lo, hi, garbage) ==
    IF hi <= lo THEN 0
    ELSE IF hi = lo + 1 THEN ActiveInRow(g, lo, 4, garbage)
         ELSE LET mid == (lo + hi) \div 2
              IN  ActiveIn(g, lo, mid, garbage) + ActiveIn(g, mid, hi, garbage)

\* double phase = (cycle * 0.1) + (i * 0.01)
Phase(cycle, i) == DAdd(DMul(DFromInt(cycle), DTenth), DMul(DFromInt(i), DHundredth))

\* (double)rand() / RAND_MAX * 0.1 - 0.05
Noise(seed, n) == DSub(DMul(RandFraction(seed, n), DTenth), DTwentieth)

\* what the scan stores in an active cell for the value and the phase of
\* its row, whatever its channel: the value, the trace, and of the entropy
\* 0.5 + fabs(value) * 0.3 + noise the part before the noise
Scan(value, phase) ==
    [value |-> value,
     deriv |-> trace_derivative(value, phase),
     level |-> DAdd(DHalf, DMul(DAbs(value), DThreeTenths))]

\* what the scan of a cycle stores in an active cell of the row i
ScanOf(cycle, i) == Scan(Double(RefreshWave[cycle + 1][i + 1]), Phase(cycle, i))

\* ScanOf for the rows lo .. hi - 1, by halves
RECURSIVE ScansOf(_, _, _)
ScansOf(cycle, lo, hi) ==
    IF hi <= lo THEN << >>
    ELSE IF hi = lo + 1 THEN <<ScanOf(cycle, lo)>>
         ELSE LET mid == (lo + hi) \div 2
              IN  ScansOf(cycle, lo, mid) \o ScansOf(cycle, mid, hi)

\* ScansOf for the cycles from cycle on
RECURSIVE ScansFrom(_)
ScansFrom(cycle) ==
    IF cycle >= DIM_CYCLES THEN << >>
    ELSE <<ScansOf(cycle, 0, DIM_ACTIVE_SIZE)>> \o ScansFrom(cycle + 1)

\* ScanOf for every cycle and row, computed once
Scans == ScansFrom(0)

\* mutant: the scan leaves the value of the GREEN cells as it was
RefreshCellKeepsGreen(cell, scan, seed, n, active) ==
    LET node == Read(cell, "active", active)
    IN  IF node.active
        THEN IF Determinate(node, "channel") /\ node.channel = GREEN
             THEN Written(node,
                          [deriv   |-> scan.deriv,
                           entropy |-> DAdd(scan.level, Noise(seed, n))])
             ELSE Written(node,
                          [value   |-> scan.value,
                           deriv   |-> scan.deriv,
                           entropy |-> DAdd(scan.level, Noise(seed, n))])
        ELSE node

\* the cell grid[i][ch] after the scan has passed it, scan being what the
\* scan computes for its row, active what its active flag gives and n the
\* number of rand() calls made before
RefreshCell(cell, scan, seed, n, active) ==
    LET node == Read(cell, "active", active)
    IN  IF node.active
        THEN Written(node,
                     [value   |-> scan.value,
                      deriv   |-> scan.deriv,
                      entropy |-> DAdd(scan.level, Noise(seed, n))])
        ELSE node

\* the row i after the scan, base rand() calls having been made before it
RefreshRow(g, cycle, i, seed, base, garbage) ==
    [ch \in Channels |->
        RefreshCell(g[i][ch], Scans[cycle + 1][i + 1], seed,
                    base + ActiveInRow(g, i, ch, garbage),
                    ActiveRead(g, i, ch, garbage))]

\* the rows lo .. hi - 1 after the scan, off rand() calls having been made
\* before row lo, by halves
RECURSIVE RefreshRows(_, _, _, _, _, _, _)
RefreshRows(g, cycle, seed, lo, hi, off, garbage) ==
    IF hi <= lo THEN << >>
    ELSE IF hi = lo + 1 THEN <<RefreshRow(g, cycle, lo, seed, off, garbage)>>
         ELSE LET mid == (lo + hi) \div 2
              IN  RefreshRows(g, cycle, seed, lo, mid, off, garbage)
                  \o RefreshRows(g, cycle, seed, mid, hi,
                                 off + ActiveIn(g, lo, mid, garbage), garbage)

\* what the cycle leaves when the scan turned the rows of g into rows
CycleOutcome(g, rows, calls, garbage) ==
    [grid |-> [i \in Rows |-> rows[i + 1]],
     active_count |->
         [ch \in Channels |->
             Cardinality({i \in Rows : ActiveRead(g, i, ch, garbage)})],
     terminated |->
         {c \in Channels \X Rows :
             ActiveRead(g, c[2], c[1], garbage) /\ rows[c[2] + 1][c[1]].deriv.terminated},
     calls |-> calls + ActiveIn(g, 0, DIM_ACTIVE_SIZE, garbage)]

nsigii_verification_cycle(g, cycle, seed, calls, garbage) ==
    CycleOutcome(g, RefreshRows(g, cycle, seed, 0, DIM_ACTIVE_SIZE, calls, garbage),
                 calls, garbage)

(***************************************************************************)
(* main of the dimensional engine: srand(time(NULL)), the grid after       *)
(* init_sparse_grid, then the three verification cycles.                   *)
(***************************************************************************)
DimInit ==
    /\ \E seed \in {ClockSeeds[c] : c \in DOMAIN ClockSeeds} :
           /\ dgrid = dim_init_sparse_grid(DimStorage, seed)
           /\ drng = [seed |-> seed, calls |-> 3 * FilledRows]
    /\ dpc = "cycles"
    /\ dcycle = 0
    /\ dcount = [ch \in Channels |-> 0]
    /\ dflag = {}

\* main takes what the cycle leaves
CycleStores(out) ==
    /\ dgrid' = out.grid
    /\ dcount' = out.active_count
    /\ dflag' = out.terminated
    /\ drng' = [drng EXCEPT !.calls = out.calls]

VerificationCycle ==
    /\ dpc = "cycles"
    /\ dcycle < DIM_CYCLES
    /\ \E garbage \in [Unwritten(dgrid) -> BOOLEAN] :
           CycleStores(nsigii_verification_cycle(dgrid, dcycle, drng.seed,
                                                 drng.calls, garbage))
    /\ dcycle' = dcycle + 1
    /\ dpc' = IF dcycle + 1 < DIM_CYCLES THEN "cycles" ELSE "done"

SpecDimInit == DimInit /\ MinimalIdle /\ CombineIdle /\ TraceIdle /\ CallIdle

SpecDimNext == VerificationCycle /\ UNCHANGED <<minimalVars, cc, tr, callVars>>

SpecDim == SpecDimInit /\ [][SpecDimNext]_vars

(***************************************************************************)
(* Claims about the dimensional engine, checked under SpecDim.             *)
(***************************************************************************)
Coordinates == 0 .. (GRID_SIZE - 1)

\* the number of triples of [0,N)^3 with (i + j + k) mod 4 = 0, capped at 250
ExpectedActive ==
    LET n == Cardinality({t \in Coordinates \X Coordinates \X Coordinates :
                             (t[1] + t[2] + t[3]) % 4 = 0})
    IN  IF n < 250 THEN n ELSE 250

RowsBothActive == {r \in Rows : dgrid[r][RED].active /\ dgrid[r][GREEN].active}

\* C5: the number of RED cells a verification cycle counts as active over
\* the 250 rows it scans equals the number of triples (i,j,k) of [0,10)^3
\* with (i+j+k) mod 4 = 0 (capped at 250), in every cycle, and no refresh
\* changes any cell's active flag.
C5_SparsityCount ==
    [][dcycle' # dcycle =>
          /\ dcount'[RED] = ExpectedActive
          /\ \A r \in Rows, ch \in Channels :
                 Determinate(dgrid[r][ch], "active") =>
                     dgrid'[r][ch].active = dgrid[r][ch].active]_vars

\* C6: in each of the 3 refresh cycles run by main the RED and the GREEN
\* active counts are each N^3/4 = 250 = ACTIVE_SIZE and the CYAN active
\* count equals the number of rows where RED and GREEN are both active.
C6_EndToEndCounts ==
    dcycle > 0 =>
        /\ dcount[RED] = 250
        /\ dcount[GREEN] = 250
        /\ dcount[CYAN] = Cardinality(RowsBothActive)


(***************************************************************************)
(* nsigii_protocol_cycle called on its own: on the grid init_sparse_grid   *)
(* leaves in main, or on that grid with one governance vector stored in    *)
(* every red cell, and an index as main passes it, freshly initialised on  *)
(* a triple of [0, MaxCoord]^3 or moved once by a navigation event (its    *)
(* stored permutations are then those of the triple it was built on).      *)
(***************************************************************************)
CycleTriples == (0 .. MaxCoord) \X (0 .. MaxCoord) \X (0 .. MaxCoord)

ZeroRisk == [attack_risk |-> FZero, rollback_cost |-> FZero, stability_impact |-> FZero]

\* the grid of main after init_sparse_grid
MainGrid == init_sparse_grid(MainStorage, DefaultSeed)

\* the grid g with the vector v stored in every red cell
WithVector(g, v) ==
    [g EXCEPT !.red = [s \in Slots |-> [g.red[s] EXCEPT !.vector = v]]]

CycleVectors ==
    {[attack_risk |-> FZero, rollback_cost |-> FZero, stability_impact |-> FZero],
     [attack_risk |-> Tenth, rollback_cost |-> Twentieth, stability_impact |-> Fifth]}

CycleGrids == {MainGrid} \cup {WithVector(MainGrid, v) : v \in CycleVectors}

CycleInit ==
    \E g \in CycleGrids, t \in CycleTriples, moved \in BOOLEAN :
        LET built == init_tomographic_index(t[1], t[2], t[3])
        IN  cy = [phase   |-> "called",
                  grid    |-> g,
                  index   |-> IF moved THEN handle_trident_event("EVENT_UP", built)
                              ELSE built,
                  packet  |-> NoPacket,
                  risk    |-> ZeroRisk,
                  verdict |-> "none"]

CallCycle ==
    /\ cy.phase = "called"
    /\ LET out == nsigii_protocol_cycle(cy.grid, cy.index)
       IN  cy' = [cy EXCEPT !.phase = "returned",
                            !.packet = out.packet,
                            !.risk = out.risk,
                            !.verdict = out.verdict]

SpecCycleInit ==
    CycleInit /\ MinimalIdle /\ CombineIdle /\ TraceIdle /\ DimIdle
        /\ IndexIdle /\ CoreIdle /\ TokenizeIdle /\ BindingIdle /\ NavIdle

SpecCycleNext == CallCycle /\ UNCHANGED <<minimalVars, cc, tr, dimVars, ix, core, tk, bd, nav>>

SpecCycle == SpecCycleInit /\ [][SpecCycleNext]_vars

(***************************************************************************)
(* Claims about nsigii_protocol_cycle, checked under SpecCycle.            *)
(***************************************************************************)
\* the slot of the stored permutation p (1 .. 6) of an index
SampledSlot(index, p) ==
    LET perm == index.permutations[p]
    IN  (perm[1] * 100 + perm[2] * 10 + perm[3]) % ACTIVE_SIZE

\* the twelve cells a cycle looks at, in the order it looks at them
Candidates(g, index) ==
    [n \in 1 .. 12 |->
        LET slot == SampledSlot(index, (n + 1) \div 2)
        IN  IF n % 2 = 1 THEN g.red[slot] ELSE g.green[slot]]

IsActiveCell(cell) == cell.active

ExpectedPacket(g, index) ==
    LET kept == SelectSeq(Candidates(g, index), IsActiveCell)
    IN  [n \in 1 .. Len(kept) |-> kept[n].value]

\* C11: the packet of a cycle is, for the stored permutations p = 0..5 in
\* order, the red value of the slot (a*100 + b*10 + c) mod ACTIVE_SIZE if red
\* is active there, then the green value if green is active there, and
\* nothing else; the cycle modifies neither the grid nor the index.
C11_PacketSequence ==
    [][cy.phase = "called" =>
          /\ cy'.phase = "returned"
          /\ cy'.grid = cy.grid
          /\ cy'.index = cy.index
          /\ cy'.packet.data = ExpectedPacket(cy.grid, cy.index)
          /\ cy'.packet.length = Len(ExpectedPacket(cy.grid, cy.index))]_vars

\* a cycle on an index moved off its triple returned a packet of two slots
\* whose red and green bytes differ
C11_Witness ==
    /\ cy.phase = "returned"
    /\ cy.index.permutations # PermutationsOf(cy.index.i, cy.index.j, cy.index.k)
    /\ cy.packet.length = 4
    /\ cy.packet.data[1] # cy.packet.data[2]
    /\ cy.packet.data[1] # cy.packet.data[3]

ActiveRed(g) == {s \in Slots : g.red[s].active}

\* the red cells of the grid in slot order, and those of them that are active
RedCells(g) == [n \in 1 .. ACTIVE_SIZE |-> g.red[n - 1]]

ActiveRedCells(g) == SelectSeq(RedCells(g), IsActiveCell)

\* acc and one risk entry of the cells lo .. hi of the sequence, added in
\* the floats of the program one after the other, the lower half first
RECURSIVE RiskSum(_, _, _, _, _)
RiskSum(cells, field, acc, lo, hi) ==
    IF hi < lo THEN acc
    ELSE IF hi = lo THEN FAdd(acc, cells[lo].vector[field])
         ELSE LET mid == (lo + hi) \div 2
                  lower == RiskSum(cells, field, acc, lo, mid)
              IN  IF lower = FZero
                  THEN RiskSum(cells, field, FZero, mid + 1, hi)
                  ELSE RiskSum(cells, field, lower, mid + 1, hi)

\* the mean of one risk entry over the cells, as the floats of the program
\* add and divide; 0 when there is none
RiskMean(cells, field) ==
    IF Len(cells) = 0 THEN FZero
    ELSE FDiv(RiskSum(cells, field, FZero, 1, Len(cells)), Len(cells))

\* the aggregate of a grid: the mean of each entry over its active red cells
ExpectedAggregate(g) ==
    [attack_risk      |-> RiskMean(ActiveRedCells(g), "attack_risk"),
     rollback_cost    |-> RiskMean(ActiveRedCells(g), "rollback_cost"),
     stability_impact |-> RiskMean(ActiveRedCells(g), "stability_impact")]

\* the grid g with no red cell active, and with a risk of 1/5 in every entry
\* of every red cell
Deactivated(g) ==
    [g EXCEPT !.red = [s \in Slots |-> [g.red[s] EXCEPT !.active = FALSE]]]

HighRisk == [attack_risk |-> Fifth, rollback_cost |-> Fifth, stability_impact |-> Fifth]

OtherIndices ==
    {init_tomographic_index(0, 0, 0), init_tomographic_index(1, 2, 3)}

\* C12: the aggregate of a cycle is the mean of the risk entries over all
\* active red cells of the grid, as the floats of the program add and
\* divide, and the verdict is balanced iff its attack_risk is below 0.1f and
\* imbalanced otherwise; the aggregate and the verdict are the same for any
\* other index on the same grid; with no active red cell the aggregate is
\* (0,0,0) and the verdict is balanced, and with a risk of 1/5 in every red
\* cell the verdict is imbalanced.
C12_VerdictIsMeanBelowTenth ==
    cy.phase = "returned" =>
        /\ cy.risk = ExpectedAggregate(cy.grid)
        /\ cy.verdict = (IF FLess(ExpectedAggregate(cy.grid).attack_risk, Tenth)
                         THEN "balanced" ELSE "imbalanced")
        /\ \A other \in OtherIndices :
               LET out == nsigii_protocol_cycle(cy.grid, other)
               IN  out.risk = cy.risk /\ out.verdict = cy.verdict
        /\ ActiveRed(cy.grid) = {} => cy.risk = ZeroRisk /\ cy.verdict = "balanced"
        /\ LET out == nsigii_protocol_cycle(Deactivated(cy.grid), cy.index)
           IN  out.risk = ZeroRisk /\ out.verdict = "balanced"
        /\ LET out == nsigii_protocol_cycle(WithVector(cy.grid, HighRisk), cy.index)
           IN  out.verdict = "imbalanced"

\* a cycle on the grid of main, 64 of whose red cells are active, returned
\* an aggregate that is not zero and the verdict balanced
C12_Witness ==
    /\ cy.phase = "returned"
    /\ cy.grid = MainGrid
    /\ Cardinality(ActiveRed(cy.grid)) = ACTIVE_SIZE \div SPARSE_FACTOR
    /\ cy.risk.attack_risk # FZero
    /\ cy.risk = ExpectedAggregate(cy.grid)
    /\ cy.verdict = "balanced"

NoneSampledActive(g, index) ==
    \A p \in 1 .. 6 :
        /\ ~g.red[SampledSlot(index, p)].active
        /\ ~g.green[SampledSlot(index, p)].active

\* C13: packet.entropy times packet.length, as the floats of the program
\* multiply, is the sum of the packet bytes; when no sampled slot is active
\* the packet has length 0 and entropy 0 and the cycle still returns a verdict.
C13_EntropyIsMean ==
    cy.phase = "returned" =>
        /\ FMulInt(cy.packet.entropy, cy.packet.length)
               = FromInt(SumSeq(cy.packet.data))
        /\ NoneSampledActive(cy.grid, cy.index) =>
               /\ cy.packet.length = 0
               /\ cy.packet.entropy = FZero
        /\ cy.verdict \in {"balanced", "imbalanced"}

\* a cycle none of whose sampled slots is active has returned
C13_Witness ==
    /\ cy.phase = "returned"
    /\ NoneSampledActive(cy.grid, cy.index)
    /\ cy.packet.length = 0
    /\ cy.verdict = "balanced"

(***************************************************************************)
(* Claims about the derived channel of both engines.                       *)
(***************************************************************************)
\* (a + b) / 2.0 of two doubles
Mean(a, b) == DDiv(DAdd(a, b), DFromInt(2))

\* C14: no operation of either engine assigns the value of a CYAN cell
\* directly: whenever a step changes the value of a CYAN cell, the new value
\* is the combination of the co-indexed RED and GREEN cells, so neither
\* observer_consume nor the refresh scan writes a CYAN value of its own.
C14_CyanOnlyCombined ==
    [][/\ pc # "idle" =>
              \A s \in Slots :
                  \/ ~Determinate(grid'.cyan[s], "value")
                  \/ /\ Determinate(grid.cyan[s], "value")
                     /\ grid'.cyan[s].value = grid.cyan[s].value
                  \/ grid'.cyan[s].value
                         = CombinedValue(grid'.red[s].value, grid'.green[s].value)
       /\ dpc # "idle" =>
              \A r \in Rows :
                  \/ ~Determinate(dgrid'[r][CYAN], "value")
                  \/ /\ Determinate(dgrid[r][CYAN], "value")
                     /\ dgrid'[r][CYAN].value = dgrid[r][CYAN].value
                  \/ /\ Determinate(dgrid'[r][RED], "value")
                     /\ Determinate(dgrid'[r][GREEN], "value")
                     /\ dgrid'[r][CYAN].value
                            = Mean(dgrid'[r][RED].value, dgrid'[r][GREEN].value)]_vars

FilledRowSet == 0 .. (FilledRows - 1)

DerivedIsMean(r) ==
    /\ dgrid[r][CYAN].value = Mean(dgrid[r][RED].value, dgrid[r][GREEN].value)
    /\ dgrid[r][RED].polarity = DFromInt(1)
    /\ dgrid[r][GREEN].polarity = DFromInt(-1)
    /\ dgrid[r][CYAN].polarity = Mean(dgrid[r][RED].polarity, dgrid[r][GREEN].polarity)
    /\ dgrid[r][CYAN].polarity = DZero

\* C15: in the dimensional engine, after init_sparse_grid and after every
\* verification cycle, every row filled by init has CYAN.value equal to
\* (RED.value + GREEN.value) / 2 and CYAN.polarity equal to the mean of
\* RED.polarity (+1) and GREEN.polarity (-1), that is 0; no step changes a
\* polarity.
C15_DerivedValueAndPolarity ==
    /\ [](\A r \in FilledRowSet : DerivedIsMean(r))
    /\ [][\A r \in Rows, ch \in Channels :
              IF Determinate(dgrid[r][ch], "polarity")
              THEN dgrid'[r][ch].polarity = dgrid[r][ch].polarity
              ELSE ~Determinate(dgrid'[r][ch], "polarity")]_vars

\* the three cycles have run and a filled row holds a non-zero derived value
C15_Witness ==
    /\ dcycle = DIM_CYCLES
    /\ dgrid[100][CYAN].value # DZero
    /\ dgrid[100][CYAN].value = dgrid[100][RED].value
    /\ dgrid[100][CYAN].polarity = DZero

\* C16: in the dimensional engine, after init_sparse_grid and after every
\* refresh, the entropy of each active CYAN cell is the mean of the entropies
\* of the co-indexed RED and GREEN cells, whatever the noise source returns.
C16_DerivedEntropyIsMean ==
    \A r \in Rows :
        Determinate(dgrid[r][CYAN], "active") /\ dgrid[r][CYAN].active =>
            /\ Determinate(dgrid[r][RED], "entropy")
            /\ Determinate(dgrid[r][GREEN], "entropy")
            /\ dgrid[r][CYAN].entropy
                   = Mean(dgrid[r][RED].entropy, dgrid[r][GREEN].entropy)

(***************************************************************************)
(* The three index initialisers called on one triple: init_tomographic_     *)
(* index of the minimal engine, of the dimensional engine, and             *)
(* nsigii_init_tomographic_index of the core, which copies a local table.  *)
(***************************************************************************)
nsigii_init_tomographic_index(i, j, k) ==
    LET perms == << <<i, j, k>>, <<j, i, k>>, <<i, k, j>>,
                    <<j, k, i>>, <<k, i, j>>, <<k, j, i>> >>
    IN  [i |-> i, j |-> j, k |-> k,
         permutations |-> [p \in 1 .. 6 |-> [d \in 1 .. 3 |-> perms[p][d]]]]

IndexCoords == (-1) .. MaxCoord

NoIndex == [i |-> 0, j |-> 0, k |-> 0, permutations |-> << >>]

IndexInit ==
    \E i \in IndexCoords, j \in IndexCoords, k \in IndexCoords :
        ix = [phase |-> "called", i |-> i, j |-> j, k |-> k,
              done |-> {},
              minimal |-> NoIndex, dimensional |-> NoIndex, core |-> NoIndex]

InitMinimalIndex ==
    /\ ix.phase = "called"
    /\ "minimal" \notin ix.done
    /\ ix' = [ix EXCEPT !.done = @ \cup {"minimal"},
                        !.minimal = init_tomographic_index(ix.i, ix.j, ix.k)]

InitDimensionalIndex ==
    /\ ix.phase = "called"
    /\ "dimensional" \notin ix.done
    /\ ix' = [ix EXCEPT !.done = @ \cup {"dimensional"},
                        !.dimensional = dim_init_tomographic_index(ix.i, ix.j, ix.k)]

InitCoreIndex ==
    /\ ix.phase = "called"
    /\ "core" \notin ix.done
    /\ ix' = [ix EXCEPT !.done = @ \cup {"core"},
                        !.core = nsigii_init_tomographic_index(ix.i, ix.j, ix.k)]

SpecIndexInit ==
    IndexInit /\ MinimalIdle /\ CombineIdle /\ TraceIdle /\ DimIdle
        /\ CycleIdle /\ CoreIdle /\ TokenizeIdle /\ BindingIdle /\ NavIdle

SpecIndexNext ==
    /\ InitMinimalIndex \/ InitDimensionalIndex \/ InitCoreIndex
    /\ UNCHANGED <<minimalVars, cc, tr, dimVars, cy, core, tk, bd, nav>>

SpecIndex == SpecIndexInit /\ [][SpecIndexNext]_vars

\* the orderings of the triple t, as a set
OrderingsOf(t) ==
    {<<t[f[1]], t[f[2]], t[f[3]]>> : f \in Permutations(1 .. 3)}

Entries(index) == {index.permutations[p] : p \in 1 .. 6}

CanonicalIndex(index, i, j, k) ==
    /\ index.i = i /\ index.j = j /\ index.k = k
    /\ Len(index.permutations) = 6
    /\ index.permutations[1] = <<i, j, k>>
    /\ index.permutations[2] = <<j, i, k>>
    /\ index.permutations[3] = <<i, k, j>>
    /\ index.permutations[4] = <<j, k, i>>
    /\ index.permutations[5] = <<k, i, j>>
    /\ index.permutations[6] = <<k, j, i>>
    /\ Entries(index) = OrderingsOf(<<i, j, k>>)
    /\ (i # j /\ j # k /\ i # k) => Cardinality(Entries(index)) = 6

\* C17: for every (i,j,k) each of the three index initialisers stores the
\* triple and the same six entries in the order ijk, jik, ikj, jki, kij, kji;
\* the six entries are exactly the orderings of the multiset {i,j,k}, six
\* listed even when coordinates repeat and six distinct when they are
\* pairwise distinct.
C17_SixOrderings ==
    /\ "minimal" \in ix.done => CanonicalIndex(ix.minimal, ix.i, ix.j, ix.k)
    /\ "dimensional" \in ix.done => CanonicalIndex(ix.dimensional, ix.i, ix.j, ix.k)
    /\ "core" \in ix.done => CanonicalIndex(ix.core, ix.i, ix.j, ix.k)
    /\ ix.done = {"minimal", "dimensional", "core"} =>
           /\ ix.minimal.permutations = ix.dimensional.permutations
           /\ ix.minimal.permutations = ix.core.permutations

\* the three initialisers have run on a triple with a repeated coordinate
C17_Witness ==
    /\ ix.done = {"minimal", "dimensional", "core"}
    /\ ix.i = ix.j
    /\ ix.j # ix.k
    /\ Cardinality(Entries(ix.core)) = 3
    /\ Len(ix.core.permutations) = 6

(***************************************************************************)
(* The core library (nsigii_core.h).  Character strings are sequences of   *)
(* one-character strings.  A context pointer is a record whose field null  *)
(* tells a NULL pointer from a live NSigiiContext; the same for the output *)
(* buffer a caller passes to nsigii_generate_schema.                       *)
(***************************************************************************)
COLOR_RED == 0
COLOR_GREEN == 1
COLOR_BLUE == 2
COLOR_CONTRAST == 7
Colors == COLOR_RED .. COLOR_CONTRAST

POLARITY_POS == 1
POLARITY_NEG == -1
POLARITY_NEUTRAL == 0

AUX_NOSIGNAL == 0
AUX_SIGNAL == 1
AUX_START == 2
AUX_STOP == 3

NOISE_LOW == 0
NOISE_HIGH == 1

NAME_SIZE == 64
SCHEMA_BUF_SIZE == 256

NSIGII_SUCCESS == 0
NSIGII_ERROR_NULL_CTX == -1
NSIGII_ERROR_NULL_INPUT == -2
NSIGII_ERROR_INVALID == -4

Min(a, b) == IF a < b THEN a ELSE b

\* mutant: the whole of src is copied
StrncpyWhole(src, n) == src

\* strncpy(dst, src, n) into zeroed storage, read back as a C string
Strncpy(src, n) == SubSeq(src, 1, Min(Len(src), n))

NullCtx ==
    [null           |-> TRUE,
     operation      |-> << >>,
     service        |-> << >>,
     stage          |-> 0,
     aux            |-> AUX_NOSIGNAL,
     noise          |-> NOISE_LOW,
     active_colors  |-> <<COLOR_RED, COLOR_RED, COLOR_RED>>,
     color_polarity |-> [c \in Colors |-> POLARITY_NEUTRAL]]

\* nsigii_create_context; allocated: calloc returned storage
nsigii_create_context(operation, service, allocated) ==
    IF ~allocated THEN NullCtx
    ELSE [null           |-> FALSE,
          operation      |-> Strncpy(operation, NAME_SIZE - 1),
          service        |-> Strncpy(service, NAME_SIZE - 1),
          stage          |-> 0,
          aux            |-> AUX_NOSIGNAL,
          noise          |-> NOISE_LOW,
          active_colors  |-> <<COLOR_RED, COLOR_GREEN, COLOR_BLUE>>,
          color_polarity |->
              [c \in Colors |->
                  CASE c = COLOR_RED -> POLARITY_POS
                    [] c = COLOR_GREEN -> POLARITY_NEG
                    [] OTHER -> POLARITY_NEUTRAL]]

SchemaPrefix == <<"o", "b", "i", "n", "e", "x", "u", "s", ".">>

\* what the format "obinexus.%s.%s" expands to
SchemaText(ctx) == SchemaPrefix \o ctx.operation \o <<".">> \o ctx.service

\* the buffer after snprintf(out, len, ...) of text, read back as a C string
Snprintf(out, len, text) ==
    IF len = 0 THEN out
    ELSE [out EXCEPT !.text = SubSeq(text, 1, Min(Len(text), len - 1))]

nsigii_generate_schema(ctx, out, len) ==
    IF ctx.null \/ out.null
    THEN [ret |-> NSIGII_ERROR_NULL_INPUT, out |-> out]
    ELSE LET written == Len(SchemaText(ctx))
         IN  [ret |-> IF written > 0 /\ written < len
                      THEN NSIGII_SUCCESS ELSE NSIGII_ERROR_INVALID,
              out |-> Snprintf(out, len, SchemaText(ctx))]

nsigii_aux_start(ctx, noise) ==
    IF ctx.null THEN [ret |-> NSIGII_ERROR_NULL_CTX, ctx |-> ctx]
    ELSE [ret |-> NSIGII_SUCCESS,
          ctx |-> [ctx EXCEPT !.aux = AUX_START, !.noise = noise]]

\* mutant: the stop takes the context back to the state without a signal
nsigii_aux_stop_clears(ctx) ==
    IF ctx.null THEN [ret |-> NSIGII_ERROR_NULL_CTX, ctx |-> ctx]
    ELSE [ret |-> NSIGII_SUCCESS, ctx |-> [ctx EXCEPT !.aux = AUX_NOSIGNAL]]

nsigii_aux_stop(ctx) ==
    IF ctx.null THEN [ret |-> NSIGII_ERROR_NULL_CTX, ctx |-> ctx]
    ELSE [ret |-> NSIGII_SUCCESS, ctx |-> [ctx EXCEPT !.aux = AUX_STOP]]

nsigii_verify_rgb_consensus(ctx) ==
    IF ctx.null THEN FALSE
    ELSE LET red_active == (ctx.active_colors[1] = COLOR_RED)
             green_active == (ctx.active_colors[2] = COLOR_GREEN)
         IN  red_active /\ green_active

(***************************************************************************)
(* A client of the core library: it creates a context from two names       *)
(* (calloc may fail and leave it with NULL), then makes up to MaxCalls     *)
(* calls on it.  The state keeps the context, the caller's output buffer   *)
(* and the last call with its arguments and return value.                  *)
(***************************************************************************)
Name(n) == [i \in 1 .. n |-> "a"]

NameLens == {0, 1, NAME_SIZE - 1, MaxNameLen}

\* the buffer lengths around the shortest and the longest schema, and the
\* length the bindings pass
BufLens ==
    {0, 1, Len(SchemaPrefix) + 1, Len(SchemaPrefix) + 2,
     Len(SchemaPrefix) + 2 * (NAME_SIZE - 1) + 1,
     Len(SchemaPrefix) + 2 * (NAME_SIZE - 1) + 2,
     SCHEMA_BUF_SIZE}

NullBuf == [null |-> TRUE, text |-> << >>]

\* a caller's buffer before the call: zeroed, or holding what was there
Buffers == {[null |-> FALSE, text |-> << >>], [null |-> FALSE, text |-> <<"?">>]}

CoreInit ==
    \E on \in NameLens, sn \in NameLens, allocated \in BOOLEAN, buf \in Buffers :
        core = [phase   |-> "live",
                ctx     |-> nsigii_create_context(Name(on), Name(sn), allocated),
                buf     |-> buf,
                fn      |-> "nsigii_create_context",
                ret     |-> 0,
                len     |-> 0,
                outnull |-> FALSE,
                calls   |-> 0]

AuxStart(noise) ==
    /\ core.phase = "live"
    /\ core.calls < MaxCalls
    /\ LET out == nsigii_aux_start(core.ctx, noise)
       IN  core' = [core EXCEPT !.ctx = out.ctx, !.ret = out.ret,
                                !.fn = "nsigii_aux_start",
                                !.calls = @ + 1]

AuxStop ==
    /\ core.phase = "live"
    /\ core.calls < MaxCalls
    /\ LET out == nsigii_aux_stop(core.ctx)
       IN  core' = [core EXCEPT !.ctx = out.ctx, !.ret = out.ret,
                                !.fn = "nsigii_aux_stop",
                                !.calls = @ + 1]

\* the caller passes its buffer, or NULL, and a length
GenerateSchema(len, outnull) ==
    /\ core.phase = "live"
    /\ core.calls < MaxCalls
    /\ LET out == nsigii_generate_schema(core.ctx,
                                         IF outnull THEN NullBuf ELSE core.buf, len)
       IN  core' = [core EXCEPT !.buf = IF outnull THEN core.buf ELSE out.out,
                                !.ret = out.ret,
                                !.fn = "nsigii_generate_schema",
                                !.len = len,
                                !.outnull = outnull,
                                !.calls = @ + 1]

VerifyRgbConsensus ==
    /\ core.phase = "live"
    /\ core.calls < MaxCalls
    /\ core' = [core EXCEPT !.ret = IF nsigii_verify_rgb_consensus(core.ctx)
                                    THEN 1 ELSE 0,
                            !.fn = "nsigii_verify_rgb_consensus",
                            !.calls = @ + 1]

CoreNext ==
    \/ \E noise \in {NOISE_LOW, NOISE_HIGH} : AuxStart(noise)
    \/ AuxStop
    \/ \E len \in BufLens, outnull \in BOOLEAN : GenerateSchema(len, outnull)
    \/ VerifyRgbConsensus

SpecCoreInit ==
    CoreInit /\ MinimalIdle /\ CombineIdle /\ TraceIdle /\ DimIdle
        /\ CycleIdle /\ IndexIdle /\ TokenizeIdle /\ BindingIdle /\ NavIdle

SpecCoreNext == CoreNext /\ UNCHANGED <<minimalVars, cc, tr, dimVars, cy, ix, tk, bd, nav>>

SpecCore == SpecCoreInit /\ [][SpecCoreNext]_vars

(***************************************************************************)
(* nsigii_verify_rgb_consensus called on its own: on NULL, or on a context *)
(* whose three active_colors hold any ColorChannel values.                 *)
(***************************************************************************)
ConsensusInit ==
    \E colors \in Colors \X Colors \X Colors, allocated \in BOOLEAN :
        core = [phase   |-> "live",
                ctx     |-> IF allocated
                            THEN [nsigii_create_context(Name(1), Name(1), TRUE)
                                      EXCEPT !.active_colors = colors]
                            ELSE NullCtx,
                buf     |-> NullBuf,
                fn      |-> "nsigii_create_context",
                ret     |-> 0,
                len     |-> 0,
                outnull |-> FALSE,
                calls   |-> MaxCalls - 1]

SpecConsensusInit ==
    ConsensusInit /\ MinimalIdle /\ CombineIdle /\ TraceIdle /\ DimIdle
        /\ CycleIdle /\ IndexIdle /\ TokenizeIdle /\ BindingIdle /\ NavIdle

SpecConsensusNext ==
    VerifyRgbConsensus /\ UNCHANGED <<minimalVars, cc, tr, dimVars, cy, ix, tk, bd, nav>>

SpecConsensus == SpecConsensusInit /\ [][SpecConsensusNext]_vars

(***************************************************************************)
(* Claims about the core library.                                          *)
(***************************************************************************)
Returned(fn) == core.phase = "live" /\ core.fn = fn

\* C18: nsigii_verify_rgb_consensus returns true iff a RED entry and a GREEN
\* entry both occur among the three entries of active_colors, whatever
\* their positions, and false for a null context.
C18_ConsensusAnyPosition ==
    Returned("nsigii_verify_rgb_consensus") =>
        (core.ret = 1) <=>
            /\ ~core.ctx.null
            /\ \E p \in 1 .. 3 : core.ctx.active_colors[p] = COLOR_RED
            /\ \E p \in 1 .. 3 : core.ctx.active_colors[p] = COLOR_GREEN

\* the schema string of a context, character by character
ExpectedSchema(ctx) ==
    <<"o", "b", "i", "n", "e", "x", "u", "s", ".">>
        \o ctx.operation \o <<".">> \o ctx.service

\* C19: on a non-null context and buffer nsigii_generate_schema returns
\* SUCCESS exactly when 'obinexus.<operation>.<service>' and its terminator
\* fit in len, and then the buffer holds that string; otherwise it returns
\* INVALID, its only error; with the 256 bytes the bindings pass it always
\* succeeds on a context made by nsigii_create_context.
C19_SchemaFits ==
    (Returned("nsigii_generate_schema") /\ ~core.ctx.null /\ ~core.outnull) =>
        /\ core.ret \in {NSIGII_SUCCESS, NSIGII_ERROR_INVALID}
        /\ (core.ret = NSIGII_SUCCESS)
               <=> (Len(ExpectedSchema(core.ctx)) + 1 <= core.len)
        /\ core.ret = NSIGII_SUCCESS => core.buf.text = ExpectedSchema(core.ctx)
        /\ core.len = 256 => core.ret = NSIGII_SUCCESS
        /\ Len(core.ctx.operation) <= 63
        /\ Len(core.ctx.service) <= 63

\* the longest schema a context can hold (two names of 63 characters) was
\* written to a buffer of 256
C19_Witness ==
    /\ Returned("nsigii_generate_schema")
    /\ ~core.ctx.null
    /\ ~core.outnull
    /\ core.len = 256
    /\ core.ret = NSIGII_SUCCESS
    /\ Len(core.buf.text) = 136

StatusCalls == {"nsigii_aux_start", "nsigii_aux_stop", "nsigii_generate_schema"}

\* C20: nsigii_aux_start, nsigii_aux_stop and nsigii_generate_schema called
\* with a null context return NULL_CONTEXT (-1) and modify no state; with a
\* non-null context aux_start and aux_stop return SUCCESS (0).
C20_NullContextStatus ==
    [][(core.phase = "live" /\ core'.calls = core.calls + 1
            /\ core'.fn \in StatusCalls) =>
          /\ core.ctx.null =>
                 /\ core'.ret = -1
                 /\ core'.ctx = core.ctx
                 /\ core'.buf = core.buf
          /\ (~core.ctx.null /\ core'.fn # "nsigii_generate_schema") =>
                 core'.ret = 0]_vars

(***************************************************************************)
(* Sparsity of the minimal engine.                                         *)
(***************************************************************************)
\* the number of active cells of one channel of the grid
ActiveCells(g, f) == Cardinality({s \in Slots : g[f][s].active})

\* C21: in the minimal engine grid.active_count and the number of active
\* cells of each of the red, green and blue channels are DATA_SIZE / 4
\* (256) after init_sparse_grid, and stay so under events, protocol cycles
\* and observer consumptions
C21_QuarterOfDataSize ==
    pc # "idle" =>
        /\ grid.active_count = DATA_SIZE \div SPARSE_FACTOR
        /\ \A f \in {"red", "green", "blue"} :
               ActiveCells(grid, f) = DATA_SIZE \div SPARSE_FACTOR

(***************************************************************************)
(* The Go and Lua bindings: Context.Tokenize and Context:tokenize.         *)
(*                                                                         *)
(* A string is a sequence of one-character strings.  The library function  *)
(* nsigii_tokenize is declared and never defined, so its answer is any     *)
(* status with any token buffer the lexer contract of the specification    *)
(* allows: triplets (type, memory, value) whose memory and value are byte  *)
(* counts, a negative status on failure.  The counts of the model are far  *)
(* below 2^31, so that int(uint32) of Go and tonumber of Lua keep them.    *)
(***************************************************************************)
TOKEN_EOF == 0
TOKEN_IDENTIFIER == 1

\* the text "<EOF>" both bindings give a token that lies past the source
Sentinel == <<"<", "E", "O", "F", ">">>

\* source texts are cut from this text repeated
ProgramText == <<"<", "E", "O", "F", ">", ";">>

SourceText(start, n) ==
    [p \in 1 .. n |-> ProgramText[((start + p - 1) % Len(ProgramText)) + 1]]

Sources ==
    {SourceText(start, n) : start \in 0 .. (Len(ProgramText) - 1),
                            n \in 0 .. MaxSourceLen}

\* the memory and value fields a token of the answer may hold
Offsets(source) == {0, Len(source) - 1, Len(source), Len(source) + 1} \cap Nat
Lengths(source) == {0, 1, Len(source), Len(source) + 1}

TokenTriplets(source) ==
    [type : {TOKEN_EOF, TOKEN_IDENTIFIER},
     memory : Offsets(source),
     value : Lengths(source)]

RECURSIVE SeqsUpTo(_, _)
SeqsUpTo(S, n) ==
    IF n = 0 THEN {<< >>}
    ELSE LET shorter == SeqsUpTo(S, n - 1)
         IN  shorter \cup {Append(q, x) : q \in {r \in shorter : Len(r) = n - 1},
                                          x \in S}

\* nsigii_tokenize(ctx, source, tokens, max_tokens, &count): the answers
nsigii_tokenize(source) ==
    [status : {NSIGII_SUCCESS, NSIGII_ERROR_INVALID},
     tokens : SeqsUpTo(TokenTriplets(source), MaxTokens)]

\* mutant: Go extraction that leaves a length of 0 as it is
GoTextKeepsZero(source, memory, value) ==
    LET memPtr == memory
        length == value
    IN  IF memPtr < Len(source)
        THEN LET sum == memPtr + length
                 end == IF sum > Len(source) THEN Len(source) ELSE sum
             IN  SubSeq(source, memPtr + 1, end)
        ELSE Sentinel

\* Go: the text of one token, source[memPtr:end] or "<EOF>"
GoText(source, memory, value) ==
    LET memPtr == memory
        length == IF value = 0 THEN 1 ELSE value
    IN  IF memPtr < Len(source)
        THEN LET sum == memPtr + length
                 end == IF sum > Len(source) THEN Len(source) ELSE sum
             IN  SubSeq(source, memPtr + 1, end)
        ELSE Sentinel

\* Go: Context.Tokenize on an open context, given the library's answer
GoTokenize(source, answer) ==
    IF answer.status # 0
    THEN [tokens |-> << >>, err |-> "tokenization failed", status |-> answer.status]
    ELSE [tokens |-> [n \in 1 .. Len(answer.tokens) |->
                         LET cToken == answer.tokens[n]
                         IN  [Type   |-> cToken.type,
                              Memory |-> cToken.memory,
                              Value  |-> cToken.value,
                              Text   |-> GoText(source, cToken.memory, cToken.value)]],
          err |-> "none",
          status |-> answer.status]

\* Lua: string.sub(s, i, j) for 1 <= i
LuaSub(s, i, j) ==
    LET last == IF j > Len(s) THEN Len(s) ELSE j
    IN  IF i > last THEN << >> ELSE SubSeq(s, i, last)

\* Lua: the text of one token, source:sub(mem_ptr + 1, mem_ptr + length) or "<EOF>"
LuaText(source, memory, value) ==
    LET mem_ptr == memory
        length == IF value = 0 THEN 1 ELSE value
    IN  IF mem_ptr < Len(source)
        THEN LuaSub(source, mem_ptr + 1, mem_ptr + length)
        ELSE Sentinel

\* Lua: Context:tokenize on an open context, given the library's answer
LuaTokenize(source, answer) ==
    IF answer.status # 0
    THEN [tokens |-> << >>, err |-> "Tokenization failed", status |-> answer.status]
    ELSE [tokens |-> [n \in 1 .. Len(answer.tokens) |->
                         LET c_token == answer.tokens[n]
                         IN  [type   |-> c_token.type,
                              memory |-> c_token.memory,
                              value  |-> IF c_token.value = 0 THEN 1 ELSE c_token.value,
                              text   |-> LuaText(source, c_token.memory, c_token.value)]],
          err |-> "none",
          status |-> answer.status]

(***************************************************************************)
(* A client that tokenizes one source through both bindings; the library   *)
(* gives both calls the same answer.                                       *)
(***************************************************************************)
NotCalled == [called |-> FALSE]

TokenizeInit ==
    \E source \in Sources :
        \E answer \in nsigii_tokenize(source) :
            tk = [phase |-> "ready", source |-> source, answer |-> answer,
                  go |-> NotCalled, lua |-> NotCalled]

CallGoTokenize ==
    /\ tk.phase = "ready"
    /\ ~tk.go.called
    /\ tk' = [tk EXCEPT !.go = [called |-> TRUE,
                                result |-> GoTokenize(tk.source, tk.answer)]]

CallLuaTokenize ==
    /\ tk.phase = "ready"
    /\ ~tk.lua.called
    /\ tk' = [tk EXCEPT !.lua = [called |-> TRUE,
                                 result |-> LuaTokenize(tk.source, tk.answer)]]

SpecTokenizeInit ==
    TokenizeInit /\ MinimalIdle /\ CombineIdle /\ TraceIdle /\ DimIdle
        /\ CycleIdle /\ IndexIdle /\ CoreIdle /\ BindingIdle /\ NavIdle

SpecTokenizeNext ==
    /\ CallGoTokenize \/ CallLuaTokenize
    /\ UNCHANGED <<minimalVars, cc, tr, dimVars, cy, ix, core, bd, nav>>

SpecTokenize == SpecTokenizeInit /\ [][SpecTokenizeNext]_vars

\* the slice of source at offset of max(length, 1) bytes, clipped to the end
ClippedSlice(source, offset, length) ==
    LET want == IF length < 1 THEN 1 ELSE length
        left == Len(source) - offset
        n == IF want < left THEN want ELSE left
    IN  [p \in 1 .. n |-> source[offset + p]]

\* the texts of the tokens a binding returned, in order
GoTexts == [n \in 1 .. Len(tk.go.result.tokens) |-> tk.go.result.tokens[n].Text]
LuaTexts == [n \in 1 .. Len(tk.lua.result.tokens) |-> tk.lua.result.tokens[n].text]

\* the tokens of an answer reach the caller only with status 0
NoTokensOnFailure(result) ==
    /\ tk.answer.status # 0 => result.tokens = << >> /\ result.err # "none"
    /\ tk.answer.status = 0 => Len(result.tokens) = Len(tk.answer.tokens)
                               /\ result.err = "none"

\* the two bindings extract the same texts from the same answer
SameTexts == tk.go.called /\ tk.lua.called => GoTexts = LuaTexts

\* C22 as stated: for every token (offset, length) of a successful tokenize
\* the extracted text is the sentinel "<EOF>" iff offset >= len(source), and
\* otherwise the slice of source at offset of max(length, 1) bytes clipped
\* to the end of source; Go and Lua extract the same text; on a non-zero
\* status no tokens are returned
C22_ExtractedText ==
    tk.phase = "ready" =>
        /\ tk.go.called =>
               /\ NoTokensOnFailure(tk.go.result)
               /\ \A n \in 1 .. Len(GoTexts) :
                      LET t == tk.answer.tokens[n]
                      IN  /\ (GoTexts[n] = Sentinel) <=> (t.memory >= Len(tk.source))
                          /\ t.memory < Len(tk.source) =>
                                 GoTexts[n] = ClippedSlice(tk.source, t.memory, t.value)
        /\ tk.lua.called =>
               /\ NoTokensOnFailure(tk.lua.result)
               /\ \A n \in 1 .. Len(LuaTexts) :
                      LET t == tk.answer.tokens[n]
                      IN  /\ (LuaTexts[n] = Sentinel) <=> (t.memory >= Len(tk.source))
                          /\ t.memory < Len(tk.source) =>
                                 LuaTexts[n] = ClippedSlice(tk.source, t.memory, t.value)
        /\ SameTexts

\* C22 amended: the extracted text is "<EOF>" whenever offset >= len(source)
\* (a slice may spell "<EOF>" too), and otherwise the slice of source at
\* offset of max(length, 1) bytes clipped to the end of source; Go and Lua
\* extract the same text; on a non-zero status no tokens are returned
C22_ExtractedTextOrSentinel ==
    tk.phase = "ready" =>
        /\ tk.go.called =>
               /\ NoTokensOnFailure(tk.go.result)
               /\ \A n \in 1 .. Len(GoTexts) :
                      LET t == tk.answer.tokens[n]
                      IN  GoTexts[n] = IF t.memory >= Len(tk.source)
                                       THEN Sentinel
                                       ELSE ClippedSlice(tk.source, t.memory, t.value)
        /\ tk.lua.called =>
               /\ NoTokensOnFailure(tk.lua.result)
               /\ \A n \in 1 .. Len(LuaTexts) :
                      LET t == tk.answer.tokens[n]
                      IN  LuaTexts[n] = IF t.memory >= Len(tk.source)
                                        THEN Sentinel
                                        ELSE ClippedSlice(tk.source, t.memory, t.value)
        /\ SameTexts

\* both bindings returned a token of length 0 that lies inside the source
C22_Witness ==
    /\ tk.phase = "ready"
    /\ tk.go.called
    /\ tk.lua.called
    /\ tk.answer.status = 0
    /\ \E n \in 1 .. Len(tk.answer.tokens) :
           /\ tk.answer.tokens[n].value = 0
           /\ tk.answer.tokens[n].memory < Len(tk.source)
           /\ Len(GoTexts[n]) = 1

(***************************************************************************)
(* Claims about the traces of the dimensional grid, checked under SpecDim. *)
(***************************************************************************)
\* the DerivativeNode is one trace_derivative leaves: order 4, the flag set
\* from the fourth derivative, and that derivative below 1e-10
TerminatedTrace(deriv) ==
    /\ deriv.order = 4
    /\ deriv.terminated = Terminated(deriv.trace)
    /\ deriv.terminated

\* the cell holds a trace, and a terminated one
HoldsTerminatedTrace(cell) ==
    Determinate(cell, "deriv") /\ TerminatedTrace(cell.deriv)

\* C23: every trace produced by trace_derivative has order 4 and
\* terminated = (|trace[4]| < 1e-10), which is true for every input, so
\* every active cell of every channel holds a terminated trace after
\* init_sparse_grid and after every refresh: a cell whose active flag is set
\* holds one, and a cell a refresh finds active held one before the refresh
C23_ActiveCellsTerminated ==
    /\ [](dpc # "idle" =>
             \A r \in Rows, ch \in Channels :
                 Determinate(dgrid[r][ch], "active") /\ dgrid[r][ch].active =>
                     HoldsTerminatedTrace(dgrid[r][ch]))
    /\ [][dcycle' # dcycle =>
              \A r \in Rows, ch \in Channels :
                  dgrid'[r][ch].active => HoldsTerminatedTrace(dgrid[r][ch])]_vars

\* C24: a refresh flags a cell as terminated only when the trace of the cell
\* was not terminated before the refresh and is terminated after it; a cell
\* whose trace was already terminated is not flagged again
C24_FlagsOnlyNewlyTerminated ==
    [][dpc = "cycles" /\ dcycle' = dcycle + 1 =>
           \A c \in dflag' :
               /\ ~(/\ Determinate(dgrid[c[2]][c[1]], "deriv")
                    /\ dgrid[c[2]][c[1]].deriv.terminated)
               /\ dgrid'[c[2]][c[1]].deriv.terminated]_vars

(***************************************************************************)
(* The life of a binding Context (Go: NewContext, Close and the methods;   *)
(* Lua: new_context, Context:close and the methods).                       *)
(*                                                                         *)
(* A binding object holds the pointer to the C context (open: the pointer  *)
(* is not nil).  The C object behind it is the context record, whether it  *)
(* was freed and how often nsigii_destroy_context was called on it.  A     *)
(* library call on a freed context runs the code of the function on what   *)
(* the freed block holds by then, given here as the argument seen, or      *)
(* faults when the page of the block is no longer mapped: the process is   *)
(* killed and the life of the Context ends there.                          *)
(***************************************************************************)
Langs == {"go", "lua"}

\* the report of a method called on a closed Context
ClosedReport(lang) == IF lang = "go" THEN "context is closed" ELSE "Context is closed"

\* the report of a method whose library call returned a status other than
\* 0; the status it names is kept beside it
FailedReport(lang, op) ==
    CASE op = "schema" ->
             IF lang = "go" THEN "failed to generate schema" ELSE "Failed to generate schema"
      [] op = "tokenize" ->
             IF lang = "go" THEN "tokenization failed" ELSE "Tokenization failed"
      [] op = "aux_start" -> "AUX start failed"
      [] op = "aux_stop" -> "AUX stop failed"

\* nsigii_destroy_context(ctx) on a context that is not NULL
nsigii_destroy_context(cobj) ==
    [cobj EXCEPT !.freed = TRUE, !.destroys = @ + 1]

\* bytes of a freed block, none of them the zero byte; "?" stands for any
\* such byte
UnknownBytes == [p \in 1 .. SCHEMA_BUF_SIZE |-> "?"]

Unknown(n) == SubSeq(UnknownBytes, 1, n)

\* what a string read at a field of the freed block may give: what was
\* stored there before (the block untouched there, or reused by a context
\* of the same name), or len bytes up to the first zero byte, len up to max
StringReadings(max) ==
    {[stored |-> TRUE, len |-> 0]} \cup {[stored |-> FALSE, len |-> n] : n \in 0 .. max}

StoredString == [stored |-> TRUE, len |-> 0]

\* what an entry of active_colors may hold in the freed block: a value of
\* ColorChannel, or an int below or above them
ColorReadings == (COLOR_RED - 1) .. (COLOR_CONTRAST + 1)

\* the block found as nsigii_destroy_context left it
StoredBlock(ctx) ==
    [mapped |-> TRUE, operation |-> StoredString, service |-> StoredString,
     active_colors |-> ctx.active_colors]

\* what the library call of the method op meets behind a pointer to the
\* freed block of ctx, in the fields it reads.  Its page still mapped:
\* nsigii_generate_schema reads the two names as strings, the service up to
\* a zero byte in its field, beyond it or beyond the block (SCHEMA_BUF_SIZE
\* bytes stand for every longer reading, no buffer passed taking as many),
\* the operation up to a zero byte in its field or, with NAME_SIZE bytes,
\* through the whole field and on into the service;
\* nsigii_verify_rgb_consensus reads the colors; nsigii_aux_start and
\* nsigii_aux_stop read nothing and store.  Its page given back to the
\* system by free(): the first read or store of the call is a fault.
Garbage(ctx, op) ==
    (CASE op = "schema" ->
              [mapped : {TRUE}, operation : StringReadings(NAME_SIZE),
               service : StringReadings(SCHEMA_BUF_SIZE),
               active_colors : {ctx.active_colors}]
       [] op = "verify_rgb_consensus" ->
              [mapped : {TRUE}, operation : {StoredString}, service : {StoredString},
               active_colors : [1 .. 3 -> ColorReadings]]
       [] OTHER -> {StoredBlock(ctx)})
        \cup {[StoredBlock(ctx) EXCEPT !.mapped = FALSE]}

\* what the library call of the method op of b meets behind the pointer; a
\* method that finds its pointer nil calls no library
Dangling(b, cobj, op) ==
    IF b.open /\ cobj.freed THEN Garbage(cobj.ctx, op) ELSE {StoredBlock(cobj.ctx)}

\* the string read at a field holding the name stored
ReadString(stored, reading) ==
    IF reading.stored THEN stored ELSE Unknown(reading.len)

\* the context the library reads behind the pointer when it meets seen
Found(ctx, seen) ==
    LET service == ReadString(ctx.service, seen.service)
    IN  [ctx EXCEPT
             !.operation = IF ~seen.operation.stored /\ seen.operation.len = NAME_SIZE
                           THEN Unknown(NAME_SIZE) \o service
                           ELSE ReadString(ctx.operation, seen.operation),
             !.service = service,
             !.active_colors = seen.active_colors]

\* what one method call leaves: the binding object, the C object, and what
\* the caller and the library saw; status is what the library returned
Outcome(b, cobj, op, err, value, reached, status) ==
    [b |-> b, cobj |-> cobj,
     last |-> [op |-> op, err |-> err, value |-> value, status |-> status,
               reached |-> reached, stale |-> reached /\ cobj.freed,
               returned |-> TRUE]]

\* the library call of the method op faulted on an unmapped page: the
\* process is killed by SIGSEGV inside the call, which returns nothing
Killed(b, cobj, op) ==
    [(Outcome(b, cobj, op, "SIGSEGV", 0, TRUE, 0)) EXCEPT !.last.returned = FALSE]

\* Close / Context:close
ContextClose(b, cobj) ==
    IF b.open
    THEN [(Outcome([b EXCEPT !.open = FALSE], nsigii_destroy_context(cobj),
                   "close", "none", 0, TRUE, 0))
             EXCEPT !.last.stale = cobj.freed]
    ELSE Outcome(b, cobj, "close", "none", 0, FALSE, 0)

\* what Schema / Context:schema returns for what the library left
SchemaReturn(b, cobj, out) ==
    IF out.ret # 0
    THEN Outcome(b, cobj, "schema", FailedReport(b.lang, "schema"), << >>, TRUE,
                 out.ret)
    ELSE Outcome(b, cobj, "schema", "none", out.out.text, TRUE, out.ret)

\* Schema / Context:schema: a zeroed buffer of 256 bytes is passed
ContextSchema(b, cobj, seen) ==
    IF ~b.open THEN Outcome(b, cobj, "schema", ClosedReport(b.lang), << >>, FALSE, 0)
    ELSE IF ~seen.mapped THEN Killed(b, cobj, "schema")
    ELSE SchemaReturn(b, cobj,
                      nsigii_generate_schema(Found(cobj.ctx, seen),
                                             [null |-> FALSE, text |-> << >>],
                                             SCHEMA_BUF_SIZE))

\* what Tokenize / Context:tokenize returns for its own result
TokenizeReturn(b, cobj, result) ==
    Outcome(b, cobj, "tokenize", result.err, result.tokens, TRUE, result.status)

\* Tokenize / Context:tokenize, the library giving answer
ContextTokenize(b, cobj, source, answer) ==
    IF ~b.open THEN Outcome(b, cobj, "tokenize", ClosedReport(b.lang), << >>, FALSE, 0)
    ELSE TokenizeReturn(b, cobj,
                        IF b.lang = "go" THEN GoTokenize(source, answer)
                        ELSE LuaTokenize(source, answer))

\* what AuxStart, AuxStop and their Lua methods return for what the
\* library left; the store of the library went into the block of cobj
AuxReturn(b, cobj, op, out) ==
    Outcome(b, [cobj EXCEPT !.ctx = out.ctx], op,
            IF out.ret # 0 THEN FailedReport(b.lang, op) ELSE "none", 0, TRUE,
            out.ret)

\* AuxStart / Context:aux_start
ContextAuxStart(b, cobj, noise, seen) ==
    IF ~b.open THEN Outcome(b, cobj, "aux_start", ClosedReport(b.lang), 0, FALSE, 0)
    ELSE IF ~seen.mapped THEN Killed(b, cobj, "aux_start")
    ELSE AuxReturn(b, cobj, "aux_start", nsigii_aux_start(Found(cobj.ctx, seen), noise))

\* AuxStop / Context:aux_stop
ContextAuxStop(b, cobj, seen) ==
    IF ~b.open THEN Outcome(b, cobj, "aux_stop", ClosedReport(b.lang), 0, FALSE, 0)
    ELSE IF ~seen.mapped THEN Killed(b, cobj, "aux_stop")
    ELSE AuxReturn(b, cobj, "aux_stop", nsigii_aux_stop(Found(cobj.ctx, seen)))

\* VerifyRGBConsensus / Context:verify_rgb_consensus
ContextVerifyRGBConsensus(b, cobj, seen) ==
    IF ~b.open
    THEN Outcome(b, cobj, "verify_rgb_consensus", ClosedReport(b.lang), FALSE, FALSE, 0)
    ELSE IF ~seen.mapped THEN Killed(b, cobj, "verify_rgb_consensus")
    ELSE Outcome(b, cobj, "verify_rgb_consensus", "none",
                 nsigii_verify_rgb_consensus(Found(cobj.ctx, seen)), TRUE, 0)

\* the method op of the Context b
Method(op, b, cobj, noise, seen) ==
    CASE op = "schema" -> ContextSchema(b, cobj, seen)
      [] op = "aux_start" -> ContextAuxStart(b, cobj, noise, seen)
      [] op = "aux_stop" -> ContextAuxStop(b, cobj, seen)
      [] op = "verify_rgb_consensus" -> ContextVerifyRGBConsensus(b, cobj, seen)

(***************************************************************************)
(* A client of one binding: NewContext succeeded, then up to MaxCalls + 1  *)
(* method calls are made on the Context in any order.  A Lua method runs   *)
(* as one step.  A Go method on an open Context takes two: it tests and    *)
(* loads c.ctx, and then the library is called with the pointer loaded and *)
(* the method returns.  In Go the object has a finalizer, which calls      *)
(* Close once the client has no further use of the object: between two     *)
(* calls, or when the call under way is the last one, the receiver being   *)
(* dead once c.ctx is loaded.  No method is called after that.             *)
(***************************************************************************)
\* the source the client tokenizes
BindingSource == SourceText(0, 1)

BindingNameLens == {1, NAME_SIZE}

\* no Go method is between its load of c.ctx and its return
NoneLoaded == << >>

BindingInit ==
    \E lang \in Langs, on \in BindingNameLens, sn \in BindingNameLens :
        bd = [phase |-> "created",
              b |-> [lang |-> lang, open |-> TRUE],
              cobj |-> [ctx |-> nsigii_create_context(Name(on), Name(sn), TRUE),
                        freed |-> FALSE, destroys |-> 0],
              last |-> [op |-> "new_context", err |-> "none", value |-> 0,
                        status |-> 0, reached |-> TRUE, stale |-> FALSE,
                        returned |-> TRUE],
              loaded |-> NoneLoaded,
              closed |-> FALSE,
              collected |-> FALSE,
              calls |-> 0]

\* the client may call a method
MayCall ==
    /\ bd.phase = "created"
    /\ ~bd.collected
    /\ bd.loaded = NoneLoaded
    /\ bd.calls <= MaxCalls

\* the state after a method call with the given outcome
AfterCall(out) ==
    bd' = [bd EXCEPT !.b = out.b, !.cobj = out.cobj, !.last = out.last,
                     !.closed = (bd.closed \/ out.last.op = "close"),
                     !.calls = @ + 1,
                     !.phase = IF out.last.returned THEN "created" ELSE "killed"]

\* the client calls the method op, which run as a whole has the outcome out:
\* a Go method that finds c.ctx set has loaded it and is still to call the
\* library
Called(op, noise, out) ==
    /\ MayCall
    /\ IF bd.b.lang = "go" /\ bd.b.open
       THEN bd' = [bd EXCEPT !.loaded = <<[op |-> op, noise |-> noise, b |-> bd.b]>>]
       ELSE AfterCall(out)

\* Close uses its receiver after the library call: it runs as a whole
BindingClose == MayCall /\ AfterCall(ContextClose(bd.b, bd.cobj))

\* the answers of the library the client meets: no token or one
BindingAnswers == {a \in nsigii_tokenize(BindingSource) : Len(a.tokens) <= 1}

BindingSchema ==
    \E seen \in Dangling(bd.b, bd.cobj, "schema") :
        Called("schema", NOISE_LOW, ContextSchema(bd.b, bd.cobj, seen))

BindingTokenize ==
    \E answer \in BindingAnswers :
        Called("tokenize", NOISE_LOW,
               ContextTokenize(bd.b, bd.cobj, BindingSource, answer))

BindingAuxStart ==
    \E noise \in {NOISE_LOW, NOISE_HIGH}, seen \in Dangling(bd.b, bd.cobj, "aux_start") :
        Called("aux_start", noise, ContextAuxStart(bd.b, bd.cobj, noise, seen))

BindingAuxStop ==
    \E seen \in Dangling(bd.b, bd.cobj, "aux_stop") :
        Called("aux_stop", NOISE_LOW, ContextAuxStop(bd.b, bd.cobj, seen))

BindingVerifyRGBConsensus ==
    \E seen \in Dangling(bd.b, bd.cobj, "verify_rgb_consensus") :
        Called("verify_rgb_consensus", NOISE_LOW,
               ContextVerifyRGBConsensus(bd.b, bd.cobj, seen))

\* the state after the Go method under way has returned with the outcome
\* out: it writes nothing to its receiver
AfterReturn(out) ==
    bd' = [bd EXCEPT !.cobj = out.cobj, !.last = out.last,
                     !.loaded = NoneLoaded, !.calls = @ + 1,
                     !.phase = IF out.last.returned THEN "created" ELSE "killed"]

\* Go: the library is called with the pointer the method loaded, and the
\* method returns
BindingReturn ==
    /\ bd.phase = "created"
    /\ bd.loaded # NoneLoaded
    /\ \/ /\ bd.loaded[1].op = "tokenize"
          /\ \E answer \in BindingAnswers :
                 AfterReturn(ContextTokenize(bd.loaded[1].b, bd.cobj,
                                             BindingSource, answer))
       \/ /\ bd.loaded[1].op # "tokenize"
          /\ \E seen \in Dangling(bd.loaded[1].b, bd.cobj, bd.loaded[1].op) :
                 AfterReturn(Method(bd.loaded[1].op, bd.loaded[1].b, bd.cobj,
                                    bd.loaded[1].noise, seen))

\* Go: the finalizer set by NewContext runs (*Context).Close
BindingFinalizer ==
    /\ bd.phase = "created"
    /\ bd.b.lang = "go"
    /\ ~bd.collected
    /\ LET out == ContextClose(bd.b, bd.cobj)
       IN  bd' = [bd EXCEPT !.b = out.b, !.cobj = out.cobj, !.last = out.last,
                            !.closed = TRUE, !.collected = TRUE]

BindingNext ==
    \/ BindingClose
    \/ BindingSchema
    \/ BindingTokenize
    \/ BindingAuxStart
    \/ BindingAuxStop
    \/ BindingVerifyRGBConsensus
    \/ BindingReturn
    \/ BindingFinalizer

SpecBindingInit ==
    BindingInit /\ MinimalIdle /\ CombineIdle /\ TraceIdle /\ DimIdle
        /\ CycleIdle /\ IndexIdle /\ CoreIdle /\ TokenizeIdle /\ NavIdle

SpecBindingNext ==
    BindingNext /\ UNCHANGED <<minimalVars, cc, tr, dimVars, cy, ix, core, tk, nav>>

SpecBinding == SpecBindingInit /\ [][SpecBindingNext]_vars

\* C25: on a binding Context, under any sequence of Close, Schema, Tokenize,
\* AuxStart, AuxStop and VerifyRGBConsensus calls and the Go finalizer,
\* nsigii_destroy_context is called at most once on the C context; after
\* the first Close no call reaches the library with the freed context:
\* every later operation reports that the context is closed and a later
\* Close is a no-op
C25_DestroyedOnceNoUseAfterClose ==
    /\ [](bd.phase = "created" =>
              /\ bd.cobj.destroys <= 1
              /\ ~bd.last.stale
              /\ bd.cobj.freed = bd.closed)
    /\ [][bd.phase = "created" /\ bd.closed =>
              /\ ~bd'.last.reached
              /\ bd'.cobj = bd.cobj
              /\ bd'.b = bd.b
              /\ bd'.last.op # "close" => bd'.last.err = ClosedReport(bd.b.lang)
              /\ bd'.last.op = "close" => bd'.last.err = "none"]_vars

(***************************************************************************)
(* The size of the packet, checked under SpecCycle.                        *)
(***************************************************************************)
\* uint8_t data[256] of NsigiiPacket
PACKET_SIZE == 256

\* C27: in every protocol cycle on an initialised minimal grid the packet
\* length is even and at most 12, each of the six permutations giving both
\* its red and its green byte or neither, so the 256-byte buffer of the
\* packet is never overrun
C27_PacketLengthEvenAtMost12 ==
    cy.phase = "returned" =>
        /\ cy.packet.length = Len(cy.packet.data)
        /\ cy.packet.length % 2 = 0
        /\ cy.packet.length <= 12
        /\ cy.packet.length <= PACKET_SIZE
        /\ cy.packet.length
               = 2 * Cardinality({p \in 1 .. 6 :
                                     cy.grid.red[SampledSlot(cy.index, p)].active})

\* a cycle has returned a packet with the bytes of some of the six
\* permutations and not of the others
C27_Witness ==
    /\ cy.phase = "returned"
    /\ cy.packet.length > 0
    /\ cy.packet.length < 12
    /\ \E p \in 1 .. 6 : cy.grid.green[SampledSlot(cy.index, p)].active

(***************************************************************************)
(* handle_trident_event called on its own: an index built on any triple of *)
(* [0,10)^3 is given up to MaxNavEvents events.  The trail holds the       *)
(* triple the index was at before each event.                              *)
(***************************************************************************)
NavCoords == 0 .. (NAV_RANGE - 1)

TripleAt(index) == <<index.i, index.j, index.k>>

NavInit ==
    \E i \in NavCoords, j \in NavCoords, k \in NavCoords :
        nav = [phase  |-> "nav",
               idx    |-> init_tomographic_index(i, j, k),
               events |-> << >>,
               trail  |-> << >>]

NavEvent(e) ==
    /\ nav.phase = "nav"
    /\ Len(nav.events) < MaxNavEvents
    /\ nav' = [nav EXCEPT !.idx = handle_trident_event(e, nav.idx),
                          !.events = Append(@, e),
                          !.trail = Append(@, TripleAt(nav.idx))]

SpecNavInit ==
    NavInit /\ MinimalIdle /\ CombineIdle /\ TraceIdle /\ DimIdle
        /\ CycleIdle /\ IndexIdle /\ CoreIdle /\ TokenizeIdle /\ BindingIdle

SpecNavNext ==
    /\ \E e \in Events : NavEvent(e)
    /\ UNCHANGED <<minimalVars, cc, tr, dimVars, cy, ix, core, tk, bd>>

SpecNav == SpecNavInit /\ [][SpecNavNext]_vars

(***************************************************************************)
(* Claims about navigation, checked under SpecNav.                         *)
(***************************************************************************)
\* C26: from an index initialised with coordinates in [0,10), every index
\* reachable by events has its three coordinates in [0,10), so every slot
\* nsigii_protocol_cycle computes from the stored permutations and every
\* slot observer_consume computes from i, j, k lies in [0, ACTIVE_SIZE)
C26_SlotsInRange ==
    nav.phase = "nav" =>
        /\ nav.idx.i \in NavCoords
        /\ nav.idx.j \in NavCoords
        /\ nav.idx.k \in NavCoords
        /\ LinearIdx(nav.idx.i, nav.idx.j, nav.idx.k) \in Slots
        /\ \A p \in 1 .. 6 :
               LET perm == nav.idx.permutations[p]
               IN  LinearIdx(perm[1], perm[2], perm[3]) \in Slots

\* two events have wrapped a coordinate around both ends of [0,10)
C26_Witness ==
    /\ nav.phase = "nav"
    /\ nav.events = <<"EVENT_BACK", "EVENT_UP">>
    /\ nav.trail = << <<9, 9, 0>>, <<9, 9, 9>> >>
    /\ TripleAt(nav.idx) = <<0, 9, 9>>
    /\ LinearIdx(nav.idx.i, nav.idx.j, nav.idx.k) = 99

\* the index after the same event n times
RECURSIVE Repeated(_, _, _)
Repeated(e, n, index) ==
    IF n = 0 THEN index ELSE Repeated(e, n - 1, handle_trident_event(e, index))

Directional == {"EVENT_UP", "EVENT_DOWN", "EVENT_LEFT", "EVENT_RIGHT", "EVENT_BACK"}

\* from the origin: i times Up, j times Right, then Back until k is reached
ReachedFromOrigin(t) ==
    LET origin == init_tomographic_index(0, 0, 0)
        up == Repeated("EVENT_UP", t[1], origin)
        right == Repeated("EVENT_RIGHT", t[2], up)
        back == Repeated("EVENT_BACK", (NAV_RANGE - t[3]) % NAV_RANGE, right)
    IN  TripleAt(back)

Inverses ==
    {<<"EVENT_UP", "EVENT_DOWN">>, <<"EVENT_DOWN", "EVENT_UP">>,
     <<"EVENT_LEFT", "EVENT_RIGHT">>, <<"EVENT_RIGHT", "EVENT_LEFT">>}

\* C28: every triple of [0,10)^3 is reached from the origin by a finite
\* sequence of events although no event increments k (repeated Back wraps
\* k through every value); Start returns every triple to (0,0,0); Up and
\* Down are mutual inverses, as are Left and Right; ten repetitions of a
\* directional event return to the same triple.  (Every triple of [0,10)^3
\* is the triple of an index no event has reached yet, and the paths and the
\* repetitions are followed from there.)
C28_Navigation ==
    nav.phase = "nav" =>
        LET n == Len(nav.events)
            here == TripleAt(nav.idx)
        IN  /\ n = 0 => ReachedFromOrigin(here) = here
            /\ n = 0 => \A e \in Directional :
                            TripleAt(Repeated(e, NAV_RANGE, nav.idx)) = here
            /\ \A e \in Events :
                   handle_trident_event(e, nav.idx).k
                       \in {here[3], (here[3] + NAV_RANGE - 1) % NAV_RANGE, 0}
            /\ n >= 1 /\ nav.events[n] = "EVENT_START" => here = <<0, 0, 0>>
            /\ n >= 2 /\ <<nav.events[n - 1], nav.events[n]>> \in Inverses =>
                   here = nav.trail[n - 1]

\* Left then Right have brought the index back across the end of [0,10)
C28_Witness ==
    /\ nav.phase = "nav"
    /\ nav.events = <<"EVENT_LEFT", "EVENT_RIGHT">>
    /\ nav.trail = << <<4, 0, 7>>, <<4, 9, 7>> >>
    /\ TripleAt(nav.idx) = <<4, 0, 7>>
    /\ ReachedFromOrigin(<<4, 0, 7>>) = <<4, 0, 7>>

(***************************************************************************)
(* The AUX sequence of a created context, checked under SpecCore.          *)
(***************************************************************************)
AuxCalls == {"nsigii_aux_start", "nsigii_aux_stop"}

\* the context as nsigii_create_context leaves it
FreshContext(ctx) ==
    /\ ctx.aux = AUX_NOSIGNAL
    /\ ctx.noise = NOISE_LOW
    /\ ctx.stage = 0
    /\ ctx.active_colors = <<COLOR_RED, COLOR_GREEN, COLOR_BLUE>>

\* C29: a context is created with aux = AUX_NOSIGNAL, noise = NOISE_LOW,
\* stage = 0 and active_colors = (RED, GREEN, BLUE); after any sequence of
\* aux_start and aux_stop calls aux is AUX_START or AUX_STOP according to
\* the last of them (never AUX_SIGNAL, never AUX_NOSIGNAL again), both
\* calls succeed in any order, noise changes only in aux_start, stage and
\* active_colors never change, and nsigii_verify_rgb_consensus returns true
\* in every state of a created context
C29_AuxSequence ==
    /\ [](core.phase = "live" /\ ~core.ctx.null =>
              /\ core.calls = 0 => FreshContext(core.ctx)
              /\ core.ctx.aux # AUX_SIGNAL
              /\ core.ctx.stage = 0
              /\ core.ctx.active_colors = <<COLOR_RED, COLOR_GREEN, COLOR_BLUE>>
              /\ nsigii_verify_rgb_consensus(core.ctx)
              /\ core.fn = "nsigii_verify_rgb_consensus" => core.ret = 1
              /\ core.fn \in AuxCalls => core.ret = NSIGII_SUCCESS)
    /\ [][core.phase = "live" /\ ~core.ctx.null =>
              /\ core'.fn = "nsigii_aux_start" => core'.ctx.aux = AUX_START
              /\ core'.fn = "nsigii_aux_stop" => core'.ctx.aux = AUX_STOP
              /\ core'.fn \notin AuxCalls => core'.ctx.aux = core.ctx.aux
              /\ core.ctx.aux # AUX_NOSIGNAL => core'.ctx.aux # AUX_NOSIGNAL
              /\ core'.ctx.noise # core.ctx.noise => core'.fn = "nsigii_aux_start"]_vars

\* a stop has followed a start with high noise on a created context
C29_Witness ==
    /\ core.phase = "live"
    /\ ~core.ctx.null
    /\ core.calls = 2
    /\ core.fn = "nsigii_aux_stop"
    /\ core.ret = NSIGII_SUCCESS
    /\ core.ctx.aux = AUX_STOP
    /\ core.ctx.noise = NOISE_HIGH

====
